--------------------------- MODULE Spec2Model ---------------------------
(***************************************************************************)
(* Model of the client-side delimited-data ingestion pipeline of           *)
(* frontend/src/App.tsx: detectDelimiter, getSchemaFromGPT and the         *)
(* handleFileUpload handler (grid mode and database mode), together with   *)
(* the React state the handler reads and writes (gridData, isGridLoading,  *)
(* isDbLoading, tableView, the reducer's tableInfo, sharedMessages), and   *)
(* of the other writers of that state: the ChatBox component, the          *)
(* newChart listener, and the handlers handleQuickConnect,                 *)
(* handlePushToMyDb (with handleCustomPushToDb) and handleCreateNeonDb.    *)
(*                                                                         *)
(* Conventions.                                                            *)
(*  - An asynchronous handler is one action for each stretch of code       *)
(*    between two awaits: the call up to its first await, and one action   *)
(*    for each way each awaited promise can settle.  Every call has a      *)
(*    record (in calls, submissions or tasks) that holds where it is       *)
(*    suspended, how it ended, and the history of the toasts it has shown  *)
(*    and of the requests it has sent.  Handlers that show toasts and      *)
(*    write no other state have no action.                                 *)
(*  - A JavaScript string that the code inspects character by character    *)
(*    (file text, lines, fields, header names, schema column names) is a   *)
(*    sequence of one-character TLA+ strings.  Strings the code only       *)
(*    compares or passes on (type names, descriptions, toast titles,       *)
(*    error messages) are atomic TLA+ strings.                             *)
(*  - A JavaScript value is a tagged record: Str(s), Num(n, s), NaN,       *)
(*    NegZero, Inf(neg), null, undefined.  Num(n, s) is the decimal        *)
(*    n / 10^s in lowest form; the texts of the model are short, so every  *)
(*    parsed value is exactly such a decimal.                              *)
(*  - A Map is a function from keys to values.  An object used as a row    *)
(*    ({} filled by obj[header] = v) is its prototype together with the    *)
(*    function from its own property keys to their values: the key         *)
(*    "__proto__" is taken by the setter the object inherits, all other    *)
(*    keys become own properties.  A row of the grid on display is the     *)
(*    function of its own properties.                                      *)
(*  - The body of the inference response is modelled after JSON decoding:  *)
(*    it is either undecodable or one of a set of decoded values.          *)
(***************************************************************************)
EXTENDS Integers, Sequences, FiniteSets, TLC

(***************************************************************************)
(* Bounds of the model.                                                    *)
(***************************************************************************)
\* longest raw text drawn character by character
MaxLen == 4
\* most entries in the columns array of a generated inference response
MaxSchemaCols == 1
\* uploads started in one session (specification SpecSession)
MaxUploads == 2
\* charts added to the state (specification SpecReducer)
MaxCharts == 2
\* submissions of the chat form (specification SpecChat)
MaxSubmits == 2
\* calls of handleQuickConnect, handlePushToMyDb and handleCreateNeonDb
\* together (specification SpecConnect)
MaxTasks == 2
\* ChatBox components mounted, one per visit of the chat tab (specification
\* SpecChat)
MaxMounts == 2

(***************************************************************************)
(* JavaScript values.                                                      *)
(***************************************************************************)
undefined == [t |-> "undefined"]
null == [t |-> "null"]
NaN == [t |-> "NaN"]
NegZero == [t |-> "-0"]
Inf(neg) == [t |-> "Infinity", neg |-> neg]
\* a string of characters, and a string the code treats as a whole
Str(s) == [t |-> "string", v |-> s]
Tok(a) == [t |-> "string", a |-> a]
Num(n, s) == [t |-> "number", n |-> n, s |-> s]

\* ToBoolean of a value (the operand of ?:, || and !)
Truthy(v) ==
    CASE v.t = "undefined" -> FALSE
      [] v.t = "null" -> FALSE
      [] v.t = "NaN" -> FALSE
      [] v.t = "-0" -> FALSE
      [] v.t = "string" -> IF "a" \in DOMAIN v THEN v.a # "" ELSE v.v # <<>>
      [] v.t = "number" -> v.n # 0
      [] OTHER -> TRUE

(***************************************************************************)
(* Characters and strings.                                                 *)
(***************************************************************************)
LF == "\n"
\* A character is a one-character TLA+ string when the character is a
\* printable one of Basic Latin, one of the escapes \t, \n, \f, \r, and the
\* code point written U+XXXX otherwise (so is the grave accent, U+0060).
\* WhiteSpace and LineTerminator of ECMAScript: the characters that
\* String.prototype.trim, the regular expression \s and the number parsers
\* take for white space
WhiteSpace ==
    {"\t", "\n", "U+000B", "\f", "\r", " ", "U+00A0", "U+1680", "U+2000",
     "U+2001", "U+2002", "U+2003", "U+2004", "U+2005", "U+2006", "U+2007",
     "U+2008", "U+2009", "U+200A", "U+2028", "U+2029", "U+202F", "U+205F",
     "U+3000", "U+FEFF"}

\* the control characters and the printable characters of Basic Latin
Controls ==
    {"U+0000", "U+0001", "U+0002", "U+0003", "U+0004", "U+0005", "U+0006",
     "U+0007", "U+0008", "\t", "\n", "U+000B", "\f", "\r", "U+000E",
     "U+000F", "U+0010", "U+0011", "U+0012", "U+0013", "U+0014", "U+0015",
     "U+0016", "U+0017", "U+0018", "U+0019", "U+001A", "U+001B", "U+001C",
     "U+001D", "U+001E", "U+001F", "U+007F"}
Printable ==
    {" ", "!", "\"", "#", "$", "%", "&", "'", "(", ")", "*", "+", ",", "-",
     ".", "/", "0", "1", "2", "3", "4", "5", "6", "7", "8", "9", ":", ";",
     "<", "=", ">", "?", "@", "A", "B", "C", "D", "E", "F", "G", "H", "I",
     "J", "K", "L", "M", "N", "O", "P", "Q", "R", "S", "T", "U", "V", "W",
     "X", "Y", "Z", "[", "\\", "]", "^", "_", "U+0060", "a", "b", "c", "d",
     "e", "f", "g", "h", "i", "j", "k", "l", "m", "n", "o", "p", "q", "r",
     "s", "t", "u", "v", "w", "x", "y", "z", "{", "|", "}", "~"}

\* Latin-1 Supplement, Latin Extended-A and Latin Extended-B
Latin ==
    {"U+0080", "U+0081", "U+0082", "U+0083", "U+0084", "U+0085", "U+0086",
     "U+0087", "U+0088", "U+0089", "U+008A", "U+008B", "U+008C", "U+008D",
     "U+008E", "U+008F", "U+0090", "U+0091", "U+0092", "U+0093", "U+0094",
     "U+0095", "U+0096", "U+0097", "U+0098", "U+0099", "U+009A", "U+009B",
     "U+009C", "U+009D", "U+009E", "U+009F", "U+00A0", "U+00A1", "U+00A2",
     "U+00A3", "U+00A4", "U+00A5", "U+00A6", "U+00A7", "U+00A8", "U+00A9",
     "U+00AA", "U+00AB", "U+00AC", "U+00AD", "U+00AE", "U+00AF", "U+00B0",
     "U+00B1", "U+00B2", "U+00B3", "U+00B4", "U+00B5", "U+00B6", "U+00B7",
     "U+00B8", "U+00B9", "U+00BA", "U+00BB", "U+00BC", "U+00BD", "U+00BE",
     "U+00BF", "U+00C0", "U+00C1", "U+00C2", "U+00C3", "U+00C4", "U+00C5",
     "U+00C6", "U+00C7", "U+00C8", "U+00C9", "U+00CA", "U+00CB", "U+00CC",
     "U+00CD", "U+00CE", "U+00CF", "U+00D0", "U+00D1", "U+00D2", "U+00D3",
     "U+00D4", "U+00D5", "U+00D6", "U+00D7", "U+00D8", "U+00D9", "U+00DA",
     "U+00DB", "U+00DC", "U+00DD", "U+00DE", "U+00DF", "U+00E0", "U+00E1",
     "U+00E2", "U+00E3", "U+00E4", "U+00E5", "U+00E6", "U+00E7", "U+00E8",
     "U+00E9", "U+00EA", "U+00EB", "U+00EC", "U+00ED", "U+00EE", "U+00EF",
     "U+00F0", "U+00F1", "U+00F2", "U+00F3", "U+00F4", "U+00F5", "U+00F6",
     "U+00F7", "U+00F8", "U+00F9", "U+00FA", "U+00FB", "U+00FC", "U+00FD",
     "U+00FE", "U+00FF", "U+0100", "U+0101", "U+0102", "U+0103", "U+0104",
     "U+0105", "U+0106", "U+0107", "U+0108", "U+0109", "U+010A", "U+010B",
     "U+010C", "U+010D", "U+010E", "U+010F", "U+0110", "U+0111", "U+0112",
     "U+0113", "U+0114", "U+0115", "U+0116", "U+0117", "U+0118", "U+0119",
     "U+011A", "U+011B", "U+011C", "U+011D", "U+011E", "U+011F", "U+0120",
     "U+0121", "U+0122", "U+0123", "U+0124", "U+0125", "U+0126", "U+0127",
     "U+0128", "U+0129", "U+012A", "U+012B", "U+012C", "U+012D", "U+012E",
     "U+012F", "U+0130", "U+0131", "U+0132", "U+0133", "U+0134", "U+0135",
     "U+0136", "U+0137", "U+0138", "U+0139", "U+013A", "U+013B", "U+013C",
     "U+013D", "U+013E", "U+013F", "U+0140", "U+0141", "U+0142", "U+0143",
     "U+0144", "U+0145", "U+0146", "U+0147", "U+0148", "U+0149", "U+014A",
     "U+014B", "U+014C", "U+014D", "U+014E", "U+014F", "U+0150", "U+0151",
     "U+0152", "U+0153", "U+0154", "U+0155", "U+0156", "U+0157", "U+0158",
     "U+0159", "U+015A", "U+015B", "U+015C", "U+015D", "U+015E", "U+015F",
     "U+0160", "U+0161", "U+0162", "U+0163", "U+0164", "U+0165", "U+0166",
     "U+0167", "U+0168", "U+0169", "U+016A", "U+016B", "U+016C", "U+016D",
     "U+016E", "U+016F", "U+0170", "U+0171", "U+0172", "U+0173", "U+0174",
     "U+0175", "U+0176", "U+0177", "U+0178", "U+0179", "U+017A", "U+017B",
     "U+017C", "U+017D", "U+017E", "U+017F", "U+0180", "U+0181", "U+0182",
     "U+0183", "U+0184", "U+0185", "U+0186", "U+0187", "U+0188", "U+0189",
     "U+018A", "U+018B", "U+018C", "U+018D", "U+018E", "U+018F", "U+0190",
     "U+0191", "U+0192", "U+0193", "U+0194", "U+0195", "U+0196", "U+0197",
     "U+0198", "U+0199", "U+019A", "U+019B", "U+019C", "U+019D", "U+019E",
     "U+019F", "U+01A0", "U+01A1", "U+01A2", "U+01A3", "U+01A4", "U+01A5",
     "U+01A6", "U+01A7", "U+01A8", "U+01A9", "U+01AA", "U+01AB", "U+01AC",
     "U+01AD", "U+01AE", "U+01AF", "U+01B0", "U+01B1", "U+01B2", "U+01B3",
     "U+01B4", "U+01B5", "U+01B6", "U+01B7", "U+01B8", "U+01B9", "U+01BA",
     "U+01BB", "U+01BC", "U+01BD", "U+01BE", "U+01BF", "U+01C0", "U+01C1",
     "U+01C2", "U+01C3", "U+01C4", "U+01C5", "U+01C6", "U+01C7", "U+01C8",
     "U+01C9", "U+01CA", "U+01CB", "U+01CC", "U+01CD", "U+01CE", "U+01CF",
     "U+01D0", "U+01D1", "U+01D2", "U+01D3", "U+01D4", "U+01D5", "U+01D6",
     "U+01D7", "U+01D8", "U+01D9", "U+01DA", "U+01DB", "U+01DC", "U+01DD",
     "U+01DE", "U+01DF", "U+01E0", "U+01E1", "U+01E2", "U+01E3", "U+01E4",
     "U+01E5", "U+01E6", "U+01E7", "U+01E8", "U+01E9", "U+01EA", "U+01EB",
     "U+01EC", "U+01ED", "U+01EE", "U+01EF", "U+01F0", "U+01F1", "U+01F2",
     "U+01F3", "U+01F4", "U+01F5", "U+01F6", "U+01F7", "U+01F8", "U+01F9",
     "U+01FA", "U+01FB", "U+01FC", "U+01FD", "U+01FE", "U+01FF", "U+0200",
     "U+0201", "U+0202", "U+0203", "U+0204", "U+0205", "U+0206", "U+0207",
     "U+0208", "U+0209", "U+020A", "U+020B", "U+020C", "U+020D", "U+020E",
     "U+020F", "U+0210", "U+0211", "U+0212", "U+0213", "U+0214", "U+0215",
     "U+0216", "U+0217", "U+0218", "U+0219", "U+021A", "U+021B", "U+021C",
     "U+021D", "U+021E", "U+021F", "U+0220", "U+0221", "U+0222", "U+0223",
     "U+0224", "U+0225", "U+0226", "U+0227", "U+0228", "U+0229", "U+022A",
     "U+022B", "U+022C", "U+022D", "U+022E", "U+022F", "U+0230", "U+0231",
     "U+0232", "U+0233", "U+0234", "U+0235", "U+0236", "U+0237", "U+0238",
     "U+0239", "U+023A", "U+023B", "U+023C", "U+023D", "U+023E", "U+023F",
     "U+0240", "U+0241", "U+0242", "U+0243", "U+0244", "U+0245", "U+0246",
     "U+0247", "U+0248", "U+0249", "U+024A", "U+024B", "U+024C", "U+024D",
     "U+024E", "U+024F"}

\* the lowercase forms of those characters that lie in later blocks
LoweredForms ==
    {"U+0253", "U+0254", "U+0256", "U+0257", "U+0259", "U+025B", "U+0260",
     "U+0263", "U+0268", "U+0269", "U+026F", "U+0272", "U+0275", "U+0280",
     "U+0283", "U+0288", "U+0289", "U+028A", "U+028B", "U+028C", "U+0292",
     "U+0307", "U+2C65", "U+2C66"}

\* the characters of the texts of the model: U+0000 to U+024F, the
\* lowercase forms of these, and the white space of the later blocks
Chars == Controls \cup Printable \cup Latin \cup LoweredForms \cup WhiteSpace
Digits == <<"0", "1", "2", "3", "4", "5", "6", "7", "8", "9">>
UpperCase == <<"A", "B", "C", "D", "E", "F", "G", "H", "I", "J", "K", "L", "M",
               "N", "O", "P", "Q", "R", "S", "T", "U", "V", "W", "X", "Y", "Z">>
LowerCase == <<"a", "b", "c", "d", "e", "f", "g", "h", "i", "j", "k", "l", "m",
               "n", "o", "p", "q", "r", "s", "t", "u", "v", "w", "x", "y", "z">>

IsDigit(c) == \E i \in 1..10 : Digits[i] = c
DigitVal(c) == (CHOOSE i \in 1..10 : Digits[i] = c) - 1

\* the lowercase mapping of the characters U+0080 to U+024F that have one
\* (Unicode lowercase mapping with SpecialCasing, as toLowerCase applies it
\* whatever the locale): U+0130 becomes two characters
LowerTable ==
    "U+00C0" :> <<"U+00E0">> @@ "U+00C1" :> <<"U+00E1">> @@
    "U+00C2" :> <<"U+00E2">> @@ "U+00C3" :> <<"U+00E3">> @@
    "U+00C4" :> <<"U+00E4">> @@ "U+00C5" :> <<"U+00E5">> @@
    "U+00C6" :> <<"U+00E6">> @@ "U+00C7" :> <<"U+00E7">> @@
    "U+00C8" :> <<"U+00E8">> @@ "U+00C9" :> <<"U+00E9">> @@
    "U+00CA" :> <<"U+00EA">> @@ "U+00CB" :> <<"U+00EB">> @@
    "U+00CC" :> <<"U+00EC">> @@ "U+00CD" :> <<"U+00ED">> @@
    "U+00CE" :> <<"U+00EE">> @@ "U+00CF" :> <<"U+00EF">> @@
    "U+00D0" :> <<"U+00F0">> @@ "U+00D1" :> <<"U+00F1">> @@
    "U+00D2" :> <<"U+00F2">> @@ "U+00D3" :> <<"U+00F3">> @@
    "U+00D4" :> <<"U+00F4">> @@ "U+00D5" :> <<"U+00F5">> @@
    "U+00D6" :> <<"U+00F6">> @@ "U+00D8" :> <<"U+00F8">> @@
    "U+00D9" :> <<"U+00F9">> @@ "U+00DA" :> <<"U+00FA">> @@
    "U+00DB" :> <<"U+00FB">> @@ "U+00DC" :> <<"U+00FC">> @@
    "U+00DD" :> <<"U+00FD">> @@ "U+00DE" :> <<"U+00FE">> @@
    "U+0100" :> <<"U+0101">> @@ "U+0102" :> <<"U+0103">> @@
    "U+0104" :> <<"U+0105">> @@ "U+0106" :> <<"U+0107">> @@
    "U+0108" :> <<"U+0109">> @@ "U+010A" :> <<"U+010B">> @@
    "U+010C" :> <<"U+010D">> @@ "U+010E" :> <<"U+010F">> @@
    "U+0110" :> <<"U+0111">> @@ "U+0112" :> <<"U+0113">> @@
    "U+0114" :> <<"U+0115">> @@ "U+0116" :> <<"U+0117">> @@
    "U+0118" :> <<"U+0119">> @@ "U+011A" :> <<"U+011B">> @@
    "U+011C" :> <<"U+011D">> @@ "U+011E" :> <<"U+011F">> @@
    "U+0120" :> <<"U+0121">> @@ "U+0122" :> <<"U+0123">> @@
    "U+0124" :> <<"U+0125">> @@ "U+0126" :> <<"U+0127">> @@
    "U+0128" :> <<"U+0129">> @@ "U+012A" :> <<"U+012B">> @@
    "U+012C" :> <<"U+012D">> @@ "U+012E" :> <<"U+012F">> @@
    "U+0130" :> <<"i", "U+0307">> @@ "U+0132" :> <<"U+0133">> @@
    "U+0134" :> <<"U+0135">> @@ "U+0136" :> <<"U+0137">> @@
    "U+0139" :> <<"U+013A">> @@ "U+013B" :> <<"U+013C">> @@
    "U+013D" :> <<"U+013E">> @@ "U+013F" :> <<"U+0140">> @@
    "U+0141" :> <<"U+0142">> @@ "U+0143" :> <<"U+0144">> @@
    "U+0145" :> <<"U+0146">> @@ "U+0147" :> <<"U+0148">> @@
    "U+014A" :> <<"U+014B">> @@ "U+014C" :> <<"U+014D">> @@
    "U+014E" :> <<"U+014F">> @@ "U+0150" :> <<"U+0151">> @@
    "U+0152" :> <<"U+0153">> @@ "U+0154" :> <<"U+0155">> @@
    "U+0156" :> <<"U+0157">> @@ "U+0158" :> <<"U+0159">> @@
    "U+015A" :> <<"U+015B">> @@ "U+015C" :> <<"U+015D">> @@
    "U+015E" :> <<"U+015F">> @@ "U+0160" :> <<"U+0161">> @@
    "U+0162" :> <<"U+0163">> @@ "U+0164" :> <<"U+0165">> @@
    "U+0166" :> <<"U+0167">> @@ "U+0168" :> <<"U+0169">> @@
    "U+016A" :> <<"U+016B">> @@ "U+016C" :> <<"U+016D">> @@
    "U+016E" :> <<"U+016F">> @@ "U+0170" :> <<"U+0171">> @@
    "U+0172" :> <<"U+0173">> @@ "U+0174" :> <<"U+0175">> @@
    "U+0176" :> <<"U+0177">> @@ "U+0178" :> <<"U+00FF">> @@
    "U+0179" :> <<"U+017A">> @@ "U+017B" :> <<"U+017C">> @@
    "U+017D" :> <<"U+017E">> @@ "U+0181" :> <<"U+0253">> @@
    "U+0182" :> <<"U+0183">> @@ "U+0184" :> <<"U+0185">> @@
    "U+0186" :> <<"U+0254">> @@ "U+0187" :> <<"U+0188">> @@
    "U+0189" :> <<"U+0256">> @@ "U+018A" :> <<"U+0257">> @@
    "U+018B" :> <<"U+018C">> @@ "U+018E" :> <<"U+01DD">> @@
    "U+018F" :> <<"U+0259">> @@ "U+0190" :> <<"U+025B">> @@
    "U+0191" :> <<"U+0192">> @@ "U+0193" :> <<"U+0260">> @@
    "U+0194" :> <<"U+0263">> @@ "U+0196" :> <<"U+0269">> @@
    "U+0197" :> <<"U+0268">> @@ "U+0198" :> <<"U+0199">> @@
    "U+019C" :> <<"U+026F">> @@ "U+019D" :> <<"U+0272">> @@
    "U+019F" :> <<"U+0275">> @@ "U+01A0" :> <<"U+01A1">> @@
    "U+01A2" :> <<"U+01A3">> @@ "U+01A4" :> <<"U+01A5">> @@
    "U+01A6" :> <<"U+0280">> @@ "U+01A7" :> <<"U+01A8">> @@
    "U+01A9" :> <<"U+0283">> @@ "U+01AC" :> <<"U+01AD">> @@
    "U+01AE" :> <<"U+0288">> @@ "U+01AF" :> <<"U+01B0">> @@
    "U+01B1" :> <<"U+028A">> @@ "U+01B2" :> <<"U+028B">> @@
    "U+01B3" :> <<"U+01B4">> @@ "U+01B5" :> <<"U+01B6">> @@
    "U+01B7" :> <<"U+0292">> @@ "U+01B8" :> <<"U+01B9">> @@
    "U+01BC" :> <<"U+01BD">> @@ "U+01C4" :> <<"U+01C6">> @@
    "U+01C5" :> <<"U+01C6">> @@ "U+01C7" :> <<"U+01C9">> @@
    "U+01C8" :> <<"U+01C9">> @@ "U+01CA" :> <<"U+01CC">> @@
    "U+01CB" :> <<"U+01CC">> @@ "U+01CD" :> <<"U+01CE">> @@
    "U+01CF" :> <<"U+01D0">> @@ "U+01D1" :> <<"U+01D2">> @@
    "U+01D3" :> <<"U+01D4">> @@ "U+01D5" :> <<"U+01D6">> @@
    "U+01D7" :> <<"U+01D8">> @@ "U+01D9" :> <<"U+01DA">> @@
    "U+01DB" :> <<"U+01DC">> @@ "U+01DE" :> <<"U+01DF">> @@
    "U+01E0" :> <<"U+01E1">> @@ "U+01E2" :> <<"U+01E3">> @@
    "U+01E4" :> <<"U+01E5">> @@ "U+01E6" :> <<"U+01E7">> @@
    "U+01E8" :> <<"U+01E9">> @@ "U+01EA" :> <<"U+01EB">> @@
    "U+01EC" :> <<"U+01ED">> @@ "U+01EE" :> <<"U+01EF">> @@
    "U+01F1" :> <<"U+01F3">> @@ "U+01F2" :> <<"U+01F3">> @@
    "U+01F4" :> <<"U+01F5">> @@ "U+01F6" :> <<"U+0195">> @@
    "U+01F7" :> <<"U+01BF">> @@ "U+01F8" :> <<"U+01F9">> @@
    "U+01FA" :> <<"U+01FB">> @@ "U+01FC" :> <<"U+01FD">> @@
    "U+01FE" :> <<"U+01FF">> @@ "U+0200" :> <<"U+0201">> @@
    "U+0202" :> <<"U+0203">> @@ "U+0204" :> <<"U+0205">> @@
    "U+0206" :> <<"U+0207">> @@ "U+0208" :> <<"U+0209">> @@
    "U+020A" :> <<"U+020B">> @@ "U+020C" :> <<"U+020D">> @@
    "U+020E" :> <<"U+020F">> @@ "U+0210" :> <<"U+0211">> @@
    "U+0212" :> <<"U+0213">> @@ "U+0214" :> <<"U+0215">> @@
    "U+0216" :> <<"U+0217">> @@ "U+0218" :> <<"U+0219">> @@
    "U+021A" :> <<"U+021B">> @@ "U+021C" :> <<"U+021D">> @@
    "U+021E" :> <<"U+021F">> @@ "U+0220" :> <<"U+019E">> @@
    "U+0222" :> <<"U+0223">> @@ "U+0224" :> <<"U+0225">> @@
    "U+0226" :> <<"U+0227">> @@ "U+0228" :> <<"U+0229">> @@
    "U+022A" :> <<"U+022B">> @@ "U+022C" :> <<"U+022D">> @@
    "U+022E" :> <<"U+022F">> @@ "U+0230" :> <<"U+0231">> @@
    "U+0232" :> <<"U+0233">> @@ "U+023A" :> <<"U+2C65">> @@
    "U+023B" :> <<"U+023C">> @@ "U+023D" :> <<"U+019A">> @@
    "U+023E" :> <<"U+2C66">> @@ "U+0241" :> <<"U+0242">> @@
    "U+0243" :> <<"U+0180">> @@ "U+0244" :> <<"U+0289">> @@
    "U+0245" :> <<"U+028C">> @@ "U+0246" :> <<"U+0247">> @@
    "U+0248" :> <<"U+0249">> @@ "U+024A" :> <<"U+024B">> @@
    "U+024C" :> <<"U+024D">> @@ "U+024E" :> <<"U+024F">>

\* String.prototype.toLowerCase on one character of Chars: the characters it
\* becomes
LowerChar(c) ==
    CASE \E i \in 1..26 : UpperCase[i] = c ->
            <<LowerCase[CHOOSE i \in 1..26 : UpperCase[i] = c]>>
      [] c \in DOMAIN LowerTable -> LowerTable[c]
      [] /\ \A i \in 1..26 : UpperCase[i] # c
         /\ c \notin DOMAIN LowerTable
         /\ c \in Chars -> <<c>>

\* String.prototype.toLowerCase
RECURSIVE ToLowerCase(_)
ToLowerCase(s) ==
    IF s = <<>> THEN <<>> ELSE LowerChar(Head(s)) \o ToLowerCase(Tail(s))

\* s.replace(/[_\s]/g, ''): every underscore and whitespace character removed
RECURSIVE StripUnderscoreSpace(_)
StripUnderscoreSpace(s) ==
    IF s = <<>> THEN <<>>
    ELSE IF Head(s) = "_" \/ Head(s) \in WhiteSpace
         THEN StripUnderscoreSpace(Tail(s))
         ELSE <<Head(s)>> \o StripUnderscoreSpace(Tail(s))

\* a normalization that keeps the letter case
NormalizeNameKeepCase(s) == StripUnderscoreSpace(s)

\* name.toLowerCase().replace(/[_\s]/g, '')
NormalizeName(s) == StripUnderscoreSpace(ToLowerCase(s))

\* String.prototype.trim
Trim(s) ==
    LET keep == {i \in 1..Len(s) : s[i] \notin WhiteSpace}
    IN  IF keep = {} THEN <<>>
        ELSE LET lo == CHOOSE i \in keep : \A j \in keep : i <= j
                 hi == CHOOSE i \in keep : \A j \in keep : j <= i
             IN  SubSeq(s, lo, hi)

\* String.prototype.split with a one-character separator
RECURSIVE Split(_, _)
Split(s, sep) ==
    IF \A i \in 1..Len(s) : s[i] # sep THEN <<s>>
    ELSE LET p == CHOOSE i \in 1..Len(s) :
                      s[i] = sep /\ \A j \in 1..(i - 1) : s[j] # sep
         IN  <<SubSeq(s, 1, p - 1)>> \o Split(SubSeq(s, p + 1, Len(s)), sep)

\* (s.match(/c/g) || []).length for a one-character pattern
MatchCount(s, c) == Cardinality({i \in 1..Len(s) : s[i] = c})

\* Array.prototype.join with a one-character separator
RECURSIVE Join(_, _)
Join(parts, sep) ==
    IF parts = <<>> THEN <<>>
    ELSE IF Len(parts) = 1 THEN parts[1]
    ELSE parts[1] \o <<sep>> \o Join(Tail(parts), sep)

\* a filter that keeps every row
FilterKeepAll(rows) == rows

\* rows.filter(row => row.length > 0)
RECURSIVE FilterNonEmpty(_)
FilterNonEmpty(rows) ==
    IF rows = <<>> THEN <<>>
    ELSE IF Len(Head(rows)) > 0
         THEN <<Head(rows)>> \o FilterNonEmpty(Tail(rows))
         ELSE FilterNonEmpty(Tail(rows))

\* Array.prototype.slice(from, to) with 0 <= from <= to (indices as in JavaScript)
Slice(xs, from, to) ==
    SubSeq(xs, from + 1, IF to < Len(xs) THEN to ELSE Len(xs))

(***************************************************************************)
(* parseInt(s, 10) and parseFloat(s).                                      *)
(***************************************************************************)
RECURSIVE Pow10(_)
Pow10(k) == IF k <= 0 THEN 1 ELSE 10 * Pow10(k - 1)

\* the length of the longest run of digits of s that starts at position i
RECURSIVE DigitRun(_, _)
DigitRun(s, i) ==
    IF i <= Len(s) /\ IsDigit(s[i]) THEN 1 + DigitRun(s, i + 1) ELSE 0

\* the value of the digits s[i], ..., s[i + k - 1]
RECURSIVE DigitsValue(_, _, _)
DigitsValue(s, i, k) ==
    IF k = 0 THEN 0
    ELSE 10 * DigitsValue(s, i, k - 1) + DigitVal(s[i + k - 1])

\* the number m * 10^e (m an integer) as a value in lowest form
RECURSIVE Decimal(_, _)
Decimal(m, e) ==
    IF m = 0 THEN Num(0, 0)
    ELSE IF e >= 0 THEN Num(m * Pow10(e), 0)
    ELSE IF m % 10 = 0 THEN Decimal(m \div 10, e + 1)
    ELSE Num(m, 0 - e)

Signed(neg, m, e) ==
    IF m = 0 THEN (IF neg THEN NegZero ELSE Num(0, 0))
    ELSE Decimal(IF neg THEN 0 - m ELSE m, e)

StartsWithAt(s, i, w) ==
    /\ i + Len(w) - 1 <= Len(s)
    /\ \A j \in 1..Len(w) : s[i + j - 1] = w[j]

\* parseInt(s, 10): leading white space, a sign, then the longest run of digits
\* (what follows the run is ignored, so trimming both ends changes nothing)
ParseInt(str) ==
    LET s == Trim(str)
        signed == s # <<>> /\ s[1] \in {"+", "-"}
        neg == s # <<>> /\ s[1] = "-"
        i == IF signed THEN 2 ELSE 1
        k == DigitRun(s, i)
    IN  IF k = 0 THEN NaN ELSE Signed(neg, DigitsValue(s, i, k), 0)

\* parseFloat(s): leading white space, then the longest prefix that is a
\* StrDecimalLiteral: sign, Infinity or digits[.digits][e[sign]digits] or
\* .digits[e[sign]digits]
ParseFloat(str) ==
    LET s == Trim(str)
        signed == s # <<>> /\ s[1] \in {"+", "-"}
        neg == s # <<>> /\ s[1] = "-"
        i == IF signed THEN 2 ELSE 1
        ki == DigitRun(s, i)
        dot == i + ki <= Len(s) /\ s[i + ki] = "."
        kf == IF dot THEN DigitRun(s, i + ki + 1) ELSE 0
        \* position after the mantissa
        p == i + ki + (IF dot /\ (ki > 0 \/ kf > 0) THEN 1 + kf ELSE 0)
        hasE == p <= Len(s) /\ s[p] \in {"e", "E"}
        esigned == hasE /\ p + 1 <= Len(s) /\ s[p + 1] \in {"+", "-"}
        eneg == esigned /\ s[p + 1] = "-"
        q == IF esigned THEN p + 2 ELSE p + 1
        ke == IF hasE THEN DigitRun(s, q) ELSE 0
        ex == IF ke = 0 THEN 0
              ELSE IF eneg THEN 0 - DigitsValue(s, q, ke)
              ELSE DigitsValue(s, q, ke)
        mant == DigitsValue(s, i, ki) * Pow10(kf)
                + (IF kf > 0 THEN DigitsValue(s, i + ki + 1, kf) ELSE 0)
    IN  IF StartsWithAt(s, i, <<"I", "n", "f", "i", "n", "i", "t", "y">>)
        THEN Inf(neg)
        ELSE IF ki = 0 /\ kf = 0 THEN NaN
        ELSE Signed(neg, mant, ex - kf)

(***************************************************************************)
(* JavaScript objects and Maps: functions from keys to values.             *)
(***************************************************************************)
\* new Map(), and the own properties of {}
EmptyObj == <<>>

ObjHas(obj, k) == k \in DOMAIN obj

\* obj[k], map.get(k): undefined when the key is absent
ObjGet(obj, k) == IF k \in DOMAIN obj THEN obj[k] ELSE undefined

\* map.set(k, v), and the definition of an own property: the key gets the
\* value, the other keys keep theirs
ObjSet(obj, k, v) ==
    [x \in DOMAIN obj \cup {k} |-> IF x = k THEN v ELSE obj[x]]

\* {}: an object without own properties whose prototype is Object.prototype
PlainObject == [proto |-> "Object.prototype", own |-> EmptyObj]

ProtoKey == <<"_", "_", "p", "r", "o", "t", "o", "_", "_">>

\* obj[k] = v on an object made by {}.  The key __proto__ reaches the setter
\* of Object.prototype while the object inherits from it: null takes the
\* prototype away, a value that is no object is ignored, and no own property
\* is made.  Every other assignment defines or overwrites an own property.
PropSet(obj, k, v) ==
    IF k = ProtoKey /\ obj.proto = "Object.prototype"
    THEN (IF v = null THEN [obj EXCEPT !.proto = "null"] ELSE obj)
    ELSE [obj EXCEPT !.own = ObjSet(obj.own, k, v)]

(***************************************************************************)
(* detectDelimiter and the tokenizer of handleFileUpload (grid mode).      *)
(***************************************************************************)
\* a detector that prefers the pipe also on equal counts
detectDelimiterTie(content) ==
    LET firstLine == Split(content, LF)[1]
    IN  IF MatchCount(firstLine, "|") >= MatchCount(firstLine, ",")
        THEN "|" ELSE ","

\* a detector that counts over the whole content
detectDelimiterWhole(content) ==
    IF MatchCount(content, "|") > MatchCount(content, ",") THEN "|" ELSE ","

detectDelimiter(content) ==
    LET firstLine == Split(content, LF)[1]
        pipeCount == MatchCount(firstLine, "|")
        commaCount == MatchCount(firstLine, ",")
    IN  IF pipeCount > commaCount THEN "|" ELSE ","

\* a tokenizer that filters the lines without trimming them first
AllRowsUntrimmed(text) == FilterNonEmpty(Split(text, LF))

\* text.split('\n').map(row => row.trim()).filter(row => row.length > 0)
AllRows(text) ==
    LET lines == Split(text, LF)
    IN  FilterNonEmpty([i \in 1..Len(lines) |-> Trim(lines[i])])

\* allRows[0].split(delimiter).map(h => h.trim())
Headers(allRows, delimiter) ==
    LET fields == Split(allRows[1], delimiter)
    IN  [i \in 1..Len(fields) |-> Trim(fields[i])]

\* a sample of all the rows
SampleDataAll(allRows) == Join(allRows, LF)

\* allRows.slice(0, 5).join('\n')
SampleData(allRows) == Join(Slice(allRows, 0, 5), LF)

(***************************************************************************)
(* The decoded inference response.  A decoded JSON value is null, a        *)
(* string, an array [t |-> "array", items |-> <<...>>] or an object        *)
(* [t |-> "object", ...]; a schema object carries columns, a column entry  *)
(* carries name, type and description, a member that is absent being       *)
(* undefined.                                                              *)
(***************************************************************************)
SchemaObj(columns) == [t |-> "object", columns |-> columns]
Arr(items) == [t |-> "array", items |-> items]
Col(name, type, description) ==
    [t |-> "object", name |-> name, type |-> type, description |-> description]

\* schema.columns.map(col => [col.name.toLowerCase()..., col]) raises a
\* TypeError: schema is null, columns is no array, an entry is null, or a
\* name is no string
SchemaMapThrows(schema) ==
    \/ schema.t # "object"
    \/ schema.columns.t # "array"
    \/ \E i \in 1..Len(schema.columns.items) :
          \/ schema.columns.items[i].t # "object"
          \/ schema.columns.items[i].name.t # "string"

\* a map that keeps the first entry of a key
RECURSIVE MapOfFirstWins(_, _)
MapOfFirstWins(items, acc) ==
    IF items = <<>> THEN acc
    ELSE MapOfFirstWins(Tail(items),
             IF ObjHas(acc, NormalizeName(Head(items).name.v)) THEN acc
             ELSE ObjSet(acc, NormalizeName(Head(items).name.v), Head(items)))

\* new Map(schema.columns.map(col => [normalized name, col]))
RECURSIVE MapOf(_, _)
MapOf(items, acc) ==
    IF items = <<>> THEN acc
    ELSE MapOf(Tail(items),
               ObjSet(acc, NormalizeName(Head(items).name.v), Head(items)))

SchemaMap(schema) == MapOf(schema.columns.items, EmptyObj)

\* schemaCol?.type
TypeOf(schemaCol) == IF schemaCol = undefined THEN undefined ELSE schemaCol.type

\* schemaMap.get(header.toLowerCase().replace(/[_\s]/g, ''))
SchemaCol(schemaMap, header) == ObjGet(schemaMap, NormalizeName(header))

IsNumericType(type) == type = Tok("INTEGER") \/ type = Tok("NUMERIC")

(***************************************************************************)
(* The materializer of handleFileUpload (grid mode).                       *)
(***************************************************************************)
\* new Intl.NumberFormat('en-IN', {...})
NumberFormat ==
    [locale |-> "en-IN", maximumFractionDigits |-> 2,
     minimumFractionDigits |-> 0, style |-> "decimal"]

\* the decimal digits of a natural number
RECURSIVE DigitsOf(_)
DigitsOf(n) ==
    IF n < 10 THEN <<Digits[n + 1]>>
    ELSE DigitsOf(n \div 10) \o <<Digits[(n % 10) + 1]>>

\* the grouping of en-IN: the last three digits, then groups of two
RECURSIVE GroupTwos(_)
GroupTwos(ds) ==
    IF Len(ds) <= 2 THEN ds
    ELSE GroupTwos(SubSeq(ds, 1, Len(ds) - 2)) \o <<",">>
            \o SubSeq(ds, Len(ds) - 1, Len(ds))
GroupIndian(ds) ==
    IF Len(ds) <= 3 THEN ds
    ELSE GroupTwos(SubSeq(ds, 1, Len(ds) - 3)) \o <<",">>
            \o SubSeq(ds, Len(ds) - 2, Len(ds))

\* the hundredths nearest to |n| / 10^s, a tie going away from zero
Hundredths(n, s) ==
    LET m == IF n < 0 THEN 0 - n ELSE n
    IN  IF s <= 2 THEN m * Pow10(2 - s)
        ELSE (2 * 100 * m + Pow10(s)) \div (2 * Pow10(s))

\* format(value) of the number format: NaN, the infinities, and a number
\* rounded to at most two fraction digits, grouped, its sign kept
FormatNumber(fmt, value) ==
    CASE value = NaN -> <<"N", "a", "N">>
      [] value.t = "Infinity" ->
            (IF value.neg THEN <<"-">> ELSE <<>>) \o <<"U+221E">>
      [] value = NegZero -> <<"-", "0">>
      [] value.t = "number" ->
            LET h == Hundredths(value.n, value.s)
                fraction ==
                    IF h % 100 = 0 THEN <<>>
                    ELSE IF h % 10 = 0 THEN <<".", Digits[((h % 100) \div 10) + 1]>>
                    ELSE <<".", Digits[((h % 100) \div 10) + 1],
                           Digits[(h % 10) + 1]>>
            IN  (IF value.n < 0 THEN <<"-">> ELSE <<>>)
                    \o GroupIndian(DigitsOf(h \div 100)) \o fraction

\* the valueFormatter of a numeric column, an arrow function the map
\* callback creates anew for every numeric column of every run: the
\* function object (closure), which is what JavaScript compares, the values
\* it shows as the empty string and the number format it applies to every
\* other value
NumberFormatter(closure) ==
    [closure |-> closure, blank |-> {null, undefined}, format |-> NumberFormat]

\* valueFormatter(params) with params.value = value
ValueFormatter(formatter, value) ==
    IF value \in formatter.blank THEN <<>>
    ELSE FormatNumber(formatter.format, value)

\* the five types of the inference prompt
ClosedTypes ==
    {Tok("TEXT"), Tok("INTEGER"), Tok("NUMERIC"), Tok("DATE"), Tok("TIMESTAMP")}

\* a column whose type is TEXT unless the entry's type is one of the five
GridColumnClosedSet(schemaMap, header, closure) ==
    LET schemaCol == SchemaCol(schemaMap, header)
        type == IF TypeOf(schemaCol) \in ClosedTypes THEN TypeOf(schemaCol)
                ELSE Tok("TEXT")
        base == [field |-> header, headerName |-> header, type |-> type,
                 sortable |-> TRUE, resizable |-> TRUE, enableValue |-> TRUE,
                 width |-> 150]
    IN  IF IsNumericType(type)
        THEN base @@ [filter |-> "agNumberColumnFilter",
                      valueFormatter |-> NumberFormatter(closure),
                      aggFunc |-> "sum",
                      allowedAggFuncs |-> <<"sum", "avg", "min", "max", "count">>]
        ELSE base @@ [filter |-> "agTextColumnFilter"]

\* one element of gridColumns; closure names the function object a numeric
\* column gets as its valueFormatter
GridColumn(schemaMap, header, closure) ==
    LET schemaCol == SchemaCol(schemaMap, header)
        baseConfig ==
            [field |-> header, headerName |-> header,
             type |-> IF Truthy(TypeOf(schemaCol)) THEN TypeOf(schemaCol)
                      ELSE Tok("TEXT"),
             sortable |-> TRUE, resizable |-> TRUE, enableValue |-> TRUE,
             width |-> 150]
    IN  IF IsNumericType(TypeOf(schemaCol))
        THEN [field |-> baseConfig.field, headerName |-> baseConfig.headerName,
              type |-> baseConfig.type, sortable |-> baseConfig.sortable,
              resizable |-> baseConfig.resizable,
              enableValue |-> baseConfig.enableValue, width |-> baseConfig.width,
              filter |-> "agNumberColumnFilter",
              valueFormatter |-> NumberFormatter(closure),
              aggFunc |-> "sum",
              allowedAggFuncs |-> <<"sum", "avg", "min", "max", "count">>]
        ELSE [field |-> baseConfig.field, headerName |-> baseConfig.headerName,
              type |-> baseConfig.type, sortable |-> baseConfig.sortable,
              resizable |-> baseConfig.resizable,
              enableValue |-> baseConfig.enableValue, width |-> baseConfig.width,
              filter |-> "agTextColumnFilter"]

\* one column for each distinct header name, in the order of first occurrence
RECURSIVE GridColumnsDistinct(_, _, _)
GridColumnsDistinct(headers, schemaMap, run) ==
    IF headers = <<>> THEN <<>>
    ELSE LET front == SubSeq(headers, 1, Len(headers) - 1)
             last == headers[Len(headers)]
         IN  IF \E k \in 1..Len(front) : front[k] = last
             THEN GridColumnsDistinct(front, schemaMap, run)
             ELSE Append(GridColumnsDistinct(front, schemaMap, run),
                         GridColumn(schemaMap, last, <<run, Len(headers)>>))

\* headers.map(header => ...) in run number run of the pipeline: the
\* function object created for header i in that run is <<run, i>>
GridColumns(headers, schemaMap, run) ==
    [i \in 1..Len(headers) |-> GridColumn(schemaMap, headers[i], <<run, i>>)]

\* values[idx]?.trim() || ''   (idx counted from 1)
RawValue(values, idx) ==
    IF idx <= Len(values) THEN Trim(values[idx]) ELSE <<>>

\* the value stored under a header: the coercion of one cell
CellValue(type, rawValue) ==
    IF type = Tok("INTEGER")
    THEN (IF rawValue # <<>> THEN ParseInt(rawValue) ELSE null)
    ELSE IF type = Tok("NUMERIC")
    THEN (IF rawValue # <<>> THEN ParseFloat(rawValue) ELSE null)
    ELSE Str(rawValue)

\* headers.reduce((obj, header, idx) => ..., {}) over the first n headers
RECURSIVE ReduceRow(_, _, _, _)
ReduceRow(headers, values, schemaMap, n) ==
    IF n = 0 THEN PlainObject
    ELSE PropSet(ReduceRow(headers, values, schemaMap, n - 1),
                 headers[n],
                 CellValue(TypeOf(SchemaCol(schemaMap, headers[n])),
                           RawValue(values, n)))

\* one element of gridRows: the own properties of the object the reduce returns
GridRow(row, headers, delimiter, schemaMap) ==
    ReduceRow(headers, Split(row, delimiter), schemaMap, Len(headers)).own

\* a map over all the rows, the header row included
GridRowsWithHeader(allRows, headers, delimiter, schemaMap) ==
    [i \in 1..Len(allRows) |-> GridRow(allRows[i], headers, delimiter, schemaMap)]

\* allRows.slice(1).map(row => ...)
GridRows(allRows, headers, delimiter, schemaMap) ==
    LET rows == Tail(allRows)
    IN  [i \in 1..Len(rows) |-> GridRow(rows[i], headers, delimiter, schemaMap)]

\* the argument of setGridData in run number run of the pipeline
TypedGrid(allRows, headers, delimiter, schema, run) ==
    [columns |-> GridColumns(headers, SchemaMap(schema), run),
     data |-> GridRows(allRows, headers, delimiter, SchemaMap(schema)),
     schema |-> schema]

(***************************************************************************)
(* The reducer of the App component.                                       *)
(***************************************************************************)
initialState ==
    [files |-> [main |-> null, summary |-> null],
     tables |-> [main |-> null, summary |-> null],
     loading |-> FALSE,
     error |-> null,
     status |-> "pending",
     progress |-> 0,
     charts |-> <<>>,
     tableInfo |-> [tableName |-> null, rowCount |-> 0, columns |-> <<>>]]

\* a reducer whose ADD_CHART puts the new chart first
reducerPrepending(st, action) ==
    CASE action.type = "SET_FILES" -> [st EXCEPT !.files = action.payload]
      [] action.type = "SET_LOADING" -> [st EXCEPT !.loading = action.payload]
      [] action.type = "SET_ERROR" -> [st EXCEPT !.error = action.payload]
      [] action.type = "SET_STATUS" -> [st EXCEPT !.status = action.payload]
      [] action.type = "SET_PROGRESS" -> [st EXCEPT !.progress = action.payload]
      [] action.type = "RESET" -> initialState
      [] action.type = "ADD_CHART" ->
            [st EXCEPT !.charts = <<action.payload>> \o st.charts]
      [] action.type = "SET_TABLE_INFO" -> [st EXCEPT !.tableInfo = action.payload]
      [] OTHER -> st

reducer(st, action) ==
    CASE action.type = "SET_FILES" -> [st EXCEPT !.files = action.payload]
      [] action.type = "SET_LOADING" -> [st EXCEPT !.loading = action.payload]
      [] action.type = "SET_ERROR" -> [st EXCEPT !.error = action.payload]
      [] action.type = "SET_STATUS" -> [st EXCEPT !.status = action.payload]
      [] action.type = "SET_PROGRESS" -> [st EXCEPT !.progress = action.payload]
      [] action.type = "RESET" -> initialState
      [] action.type = "ADD_CHART" ->
            [st EXCEPT !.charts = Append(st.charts, action.payload)]
      [] action.type = "SET_TABLE_INFO" -> [st EXCEPT !.tableInfo = action.payload]
      [] OTHER -> st

(***************************************************************************)
(* The state of the App component and of the ChatBox component, and the    *)
(* invocations of their handlers.  An invocation is a record: where it is  *)
(* suspended (pc), how it ended (outcome), its local constants, and the    *)
(* toasts it has shown and the HTTP requests it has issued, oldest first.  *)
(*                                                                         *)
(* The state variables hold what the last render committed.  While         *)
(* renderCrash is "none" that is what the page shows.  Once a render has   *)
(* thrown, the tree is unmounted: the page shows nothing, no button, tab   *)
(* or field can be used, the setters change nothing, and the state         *)
(* variables keep the values of the last commit, which nothing displays.   *)
(* The handlers suspended at an await run on all the same: they issue      *)
(* their requests and call toast.                                          *)
(*                                                                         *)
(* The ChatBox is rendered inside the TabsContent of the chat tab, which   *)
(* mounts its children only while the tab is active: input and isLoading   *)
(* are the state of the ChatBox now mounted, and while none is mounted     *)
(* they hold the initial state the next one starts with.                   *)
(***************************************************************************)
VARIABLES
    gridData,           \* useState: null or the TypedGrid on display
    isGridLoading,      \* useState: a grid-mode call is running
    isDbLoading,        \* useState: a database-mode call is running
    tableView,          \* useState: null or [type, viewType]
    state,              \* useReducer(reducer, initialState)
    sharedMessages,     \* useState: the chat messages
    renderCrash,        \* "none", or the error that a render threw
    calls,              \* the calls of handleFileUpload, oldest first
    input,              \* ChatBox useState: the text of the textarea
    isLoading,          \* ChatBox useState: a submission is running
    submissions,        \* the calls of ChatBox.handleSubmit, oldest first
    activeTab,          \* AnalysisTabs useState: the tab on display
    chatInstance,       \* the number of ChatBox components mounted so far
    isQuickConnecting,  \* useState: a call of handleQuickConnect is running
    isCustomDbLoading,  \* useState: a call of handlePushToMyDb is running
    isCreatingDb,       \* useState: a call of handleCreateNeonDb is running
    storedCredentials,  \* useState: null or the connection details
    tasks               \* the calls of handleQuickConnect, handlePushToMyDb
                        \* and handleCreateNeonDb, oldest first

\* the state of the ChatBox component
chatVars == <<input, isLoading, submissions, activeTab, chatInstance>>

\* the tab on display and the ChatBox it holds
tabVars == <<activeTab, chatInstance>>

\* the state written only by the handlers of the database connection
agentVars == <<isQuickConnecting, isCustomDbLoading, isCreatingDb,
               storedCredentials, tasks>>

\* the state written only by handleFileUpload
uploadVars == <<gridData, isGridLoading, isDbLoading, tableView, calls>>

vars == <<gridData, isGridLoading, isDbLoading, tableView, state,
          sharedMessages, renderCrash, calls, input, isLoading, submissions,
          activeTab, chatInstance,
          isQuickConnecting, isCustomDbLoading, isCreatingDb,
          storedCredentials, tasks>>

Init ==
    /\ gridData = null
    /\ isGridLoading = FALSE
    /\ isDbLoading = FALSE
    /\ tableView = null
    /\ state = initialState
    /\ sharedMessages = <<>>
    /\ renderCrash = "none"
    /\ calls = <<>>
    /\ input = <<>>
    /\ isLoading = FALSE
    /\ submissions = <<>>
    /\ activeTab = "structure"
    /\ chatInstance = 0
    /\ isQuickConnecting = FALSE
    /\ isCustomDbLoading = FALSE
    /\ isCreatingDb = FALSE
    /\ storedCredentials = null
    /\ tasks = <<>>

\* The tree is mounted (no render has thrown), so that its buttons, tabs and
\* fields can be used, and the step leaves it mounted.
Mounted == renderCrash = "none" /\ UNCHANGED renderCrash

\* The value of a state of the App component after a handler has called its
\* setter (or dispatch): the new value, which the next render commits; once
\* the tree is unmounted the call changes nothing.
Committed(old, new) == IF renderCrash = "none" THEN new ELSE old

\* A render of App throws.  No error boundary catches the error (createRoot
\* renders App inside StrictMode and Auth0Provider only), so React unmounts
\* the tree and commits nothing of what the setters were handed in the step.
RenderThrows(error) ==
    /\ renderCrash' = error
    /\ UNCHANGED <<gridData, isGridLoading, isDbLoading, tableView, state,
                   sharedMessages, input, isLoading, activeTab, chatInstance,
                   isQuickConnecting, isCustomDbLoading, isCreatingDb,
                   storedCredentials>>

\* a call of handleFileUpload: its mode, where it is suspended, how it ended,
\* the file it was given and its local constants
NewCall(mode, text) ==
    [mode |-> mode, pc |-> IF mode = "grid" THEN "text" ELSE "upload",
     outcome |-> "running", text |-> text,
     delimiter |-> "", allRows |-> <<>>, headers |-> <<>>,
     body |-> [kind |-> "none"],
     tableName |-> "", data |-> null,
     toasts |-> <<>>,
     requests |-> IF mode = "grid" THEN <<>>
                  ELSE <<[to |-> "upload", file |-> text]>>]

Toast(title, description) == [title |-> title, description |-> description]

\* invocation n of the sequence after toast({...}), and after a request
WithToast(invocations, n, toast) ==
    [invocations EXCEPT ![n].toasts = Append(@, toast)]
WithRequest(invocations, n, request) ==
    [invocations EXCEPT ![n].requests = Append(@, request)]

\* finally { mode === 'database' ? setIsDbLoading(false) : setIsGridLoading(false) }
Finally(i) ==
    /\ isDbLoading' = Committed(isDbLoading,
                          IF calls[i].mode = "database" THEN FALSE
                          ELSE isDbLoading)
    /\ isGridLoading' = Committed(isGridLoading,
                            IF calls[i].mode = "database" THEN isGridLoading
                            ELSE FALSE)

\* an error reaches the catch of handleFileUpload: the toast with the
\* message of the error, then finally
FailFrom(cs, i, message) ==
    /\ calls' = [WithToast(cs, i, Toast("Upload Failed", message))
                    EXCEPT ![i].pc = "done", ![i].outcome = "failed"]
    /\ Finally(i)

Fail(i, message) == FailFrom(calls, i, message)

\* buttons that test the flag of the other mode
EnabledByOtherFlag(mode) == IF mode = "grid" THEN ~isDbLoading ELSE ~isGridLoading

\* the button of the mode is enabled
Enabled(mode) == IF mode = "grid" THEN ~isGridLoading ELSE ~isDbLoading

(***************************************************************************)
(* handleFileUpload up to its first await.                                 *)
(***************************************************************************)
\* the click with no file chosen: the toast and the return before try
ClickNoFile(mode, limit) ==
    /\ UNCHANGED <<chatVars, agentVars>>
    /\ Len(calls) < limit
    /\ Enabled(mode)
    /\ calls' = Append(calls,
          [NewCall(mode, <<>>) EXCEPT
              !.pc = "done", !.outcome = "nofile", !.requests = <<>>,
              !.toasts = <<Toast("Missing File", "Please choose a file first")>>])
    /\ Mounted
    /\ UNCHANGED <<gridData, isGridLoading, isDbLoading, tableView, state,
                   sharedMessages>>

\* handleFileUpload with a file chosen, up to its first await: the loading
\* flag is set; grid mode suspends at file.text(), database mode posts the
\* file and suspends at axios.post.  The handler does not read the flags.
StartUpload(mode, texts, limit) ==
    /\ UNCHANGED <<chatVars, agentVars>>
    /\ Len(calls) < limit
    /\ \E text \in texts : calls' = Append(calls, NewCall(mode, text))
    /\ isDbLoading' = IF mode = "database" THEN TRUE ELSE isDbLoading
    /\ isGridLoading' = IF mode = "database" THEN isGridLoading ELSE TRUE
    /\ Mounted
    /\ UNCHANGED <<gridData, tableView, state, sharedMessages>>

\* the click on the button of the mode, which is disabled while the flag of
\* the mode is set
ClickUpload(mode, texts, limit) ==
    /\ Enabled(mode)
    /\ StartUpload(mode, texts, limit)

(***************************************************************************)
(* Grid mode.                                                              *)
(***************************************************************************)
\* file.text() rejects (the file cannot be read any more): the catch
TextRejects(i) ==
    /\ UNCHANGED <<chatVars, agentVars>>
    /\ i \in DOMAIN calls
    /\ calls[i].mode = "grid" /\ calls[i].pc = "text"
    /\ Fail(i, "The requested file could not be read")
    /\ UNCHANGED renderCrash
    /\ UNCHANGED <<gridData, tableView, state, sharedMessages>>

\* file.text() resolves: the delimiter, the rows, the empty check, the
\* headers, the sample and the fetch of getSchemaFromGPT
TextSettles(i) ==
    /\ UNCHANGED <<chatVars, agentVars>>
    /\ i \in DOMAIN calls
    /\ calls[i].mode = "grid" /\ calls[i].pc = "text"
    /\ LET text == calls[i].text
           delimiter == detectDelimiter(text)
           allRows == AllRows(text)
       IN  IF Len(allRows) = 0
           THEN FailFrom([calls EXCEPT ![i].delimiter = delimiter], i,
                         "File is empty")
           ELSE /\ calls' = [WithRequest(calls, i,
                                [to |-> "inference",
                                 sampleData |-> SampleData(allRows),
                                 delimiter |-> delimiter])
                                EXCEPT ![i].pc = "fetch",
                                       ![i].delimiter = delimiter,
                                       ![i].allRows = allRows,
                                       ![i].headers = Headers(allRows, delimiter)]
                /\ UNCHANGED <<isGridLoading, isDbLoading>>
    /\ UNCHANGED renderCrash
    /\ UNCHANGED <<gridData, tableView, state, sharedMessages>>

\* a rejected fetch that is sent once more before the call gives up
FetchRejectsRetry(i) ==
    /\ UNCHANGED <<chatVars, agentVars>>
    /\ i \in DOMAIN calls
    /\ calls[i].mode = "grid" /\ calls[i].pc = "fetch"
    /\ IF Len(calls[i].requests) < 2
       THEN /\ calls' = WithRequest(calls, i, calls[i].requests[1])
            /\ UNCHANGED <<isGridLoading, isDbLoading>>
       ELSE Fail(i, "Failed to fetch")
    /\ UNCHANGED renderCrash
    /\ UNCHANGED <<gridData, tableView, state, sharedMessages>>

\* the fetch of getSchemaFromGPT rejects: rethrown by its catch
FetchRejects(i) ==
    /\ UNCHANGED <<chatVars, agentVars>>
    /\ i \in DOMAIN calls
    /\ calls[i].mode = "grid" /\ calls[i].pc = "fetch"
    /\ Fail(i, "Failed to fetch")
    /\ UNCHANGED renderCrash
    /\ UNCHANGED <<gridData, tableView, state, sharedMessages>>

\* the fetch resolves: a response that is not ok is read as text, an ok
\* response is decoded as JSON
FetchResolves(i) ==
    /\ UNCHANGED <<chatVars, agentVars>>
    /\ i \in DOMAIN calls
    /\ calls[i].mode = "grid" /\ calls[i].pc = "fetch"
    /\ \E ok \in BOOLEAN :
          calls' = [calls EXCEPT ![i].pc = IF ok THEN "json" ELSE "errorText"]
    /\ UNCHANGED renderCrash
    /\ UNCHANGED <<gridData, isGridLoading, isDbLoading, tableView, state,
                   sharedMessages>>

\* response.text() of a response that is not ok resolves: the status error
ErrorTextSettles(i) ==
    /\ UNCHANGED <<chatVars, agentVars>>
    /\ i \in DOMAIN calls
    /\ calls[i].mode = "grid" /\ calls[i].pc = "errorText"
    /\ Fail(i, "OpenAI API error")
    /\ UNCHANGED renderCrash
    /\ UNCHANGED <<gridData, tableView, state, sharedMessages>>

\* response.text() of a response that is not ok rejects (the body cannot be
\* read): the error of the rejection takes the place of the status error
ErrorTextRejects(i) ==
    /\ UNCHANGED <<chatVars, agentVars>>
    /\ i \in DOMAIN calls
    /\ calls[i].mode = "grid" /\ calls[i].pc = "errorText"
    /\ Fail(i, "terminated")
    /\ UNCHANGED renderCrash
    /\ UNCHANGED <<gridData, tableView, state, sharedMessages>>

\* handleShowTable('main', 'advanced'): the view and its toast (a title and
\* no description; the scroll it schedules touches no state)
ShowTable ==
    tableView' = Committed(tableView, [type |-> "main", viewType |-> "advanced"])
TableLoaded == [title |-> "Interactive table loaded below ↓"]

\* the end of the grid branch of call i: the toast of handleShowTable
Shown(cs, i) ==
    [WithToast(cs, i, TableLoaded) EXCEPT ![i].pc = "done", ![i].outcome = "ok"]

\* a continuation that builds the grid from the rows and headers of the
\* latest call that tokenized its text instead of its own
JsonSettlesShared(i, bodies) ==
    /\ UNCHANGED <<chatVars, agentVars>>
    /\ i \in DOMAIN calls
    /\ calls[i].mode = "grid" /\ calls[i].pc = "json"
    /\ \E body \in bodies :
          LET received == [calls EXCEPT ![i].body = body]
              tokenized == {k \in DOMAIN calls : calls[k].allRows # <<>>}
              latest == calls[CHOOSE k \in tokenized :
                                 \A n \in tokenized : n <= k]
          IN
          IF body.kind # "content" \/ ~body.parses \/ SchemaMapThrows(body.value)
          THEN /\ FailFrom(received, i, "Error")
               /\ UNCHANGED <<gridData, tableView>>
          ELSE /\ gridData' = Committed(gridData,
                                  TypedGrid(latest.allRows, latest.headers,
                                            latest.delimiter, body.value, i))
               /\ ShowTable
               /\ calls' = Shown(received, i)
               /\ Finally(i)
    /\ UNCHANGED renderCrash
    /\ UNCHANGED <<state, sharedMessages>>

\* a continuation that drops its grid when a later call has been started
JsonSettlesLatestOnly(i, bodies) ==
    /\ UNCHANGED <<chatVars, agentVars>>
    /\ i \in DOMAIN calls
    /\ calls[i].mode = "grid" /\ calls[i].pc = "json"
    /\ \E body \in bodies :
          LET received == [calls EXCEPT ![i].body = body] IN
          IF body.kind # "content" \/ ~body.parses \/ SchemaMapThrows(body.value)
          THEN /\ FailFrom(received, i, "Error")
               /\ UNCHANGED <<gridData, tableView>>
          ELSE /\ gridData' =
                     IF i = Len(calls)
                     THEN Committed(gridData,
                             TypedGrid(calls[i].allRows, calls[i].headers,
                                       calls[i].delimiter, body.value, i))
                     ELSE gridData
               /\ ShowTable
               /\ calls' = Shown(received, i)
               /\ Finally(i)
    /\ UNCHANGED renderCrash
    /\ UNCHANGED <<state, sharedMessages>>

\* response.json() settles: it rejects when the body cannot be read or is
\* no JSON; with the body the content is read and parsed, the schema is
\* returned, and handleFileUpload builds and sets the grid
JsonSettles(i, bodies) ==
    /\ UNCHANGED <<chatVars, agentVars>>
    /\ i \in DOMAIN calls
    /\ calls[i].mode = "grid" /\ calls[i].pc = "json"
    /\ \E body \in bodies :
          LET received == [calls EXCEPT ![i].body = body] IN
          IF body.kind = "unreadable"
          THEN /\ FailFrom(received, i, "terminated")
               /\ UNCHANGED <<gridData, tableView>>
          ELSE IF body.kind = "undecodable"
          THEN /\ FailFrom(received, i, "SyntaxError")
               /\ UNCHANGED <<gridData, tableView>>
          ELSE IF body.kind = "nocontent"
          THEN /\ FailFrom(received, i, "TypeError")
               /\ UNCHANGED <<gridData, tableView>>
          ELSE IF ~body.parses
          THEN /\ FailFrom(received, i, "SyntaxError")
               /\ UNCHANGED <<gridData, tableView>>
          ELSE IF SchemaMapThrows(body.value)
          THEN /\ FailFrom(received, i, "TypeError")
               /\ UNCHANGED <<gridData, tableView>>
          ELSE /\ gridData' = Committed(gridData,
                                  TypedGrid(calls[i].allRows, calls[i].headers,
                                            calls[i].delimiter, body.value, i))
               /\ ShowTable
               /\ calls' = Shown(received, i)
               /\ Finally(i)
    /\ UNCHANGED renderCrash
    /\ UNCHANGED <<state, sharedMessages>>

(***************************************************************************)
(* Database mode.                                                          *)
(***************************************************************************)
\* axios.post rejects (transport failure or a status outside 2xx)
UploadRejects(i) ==
    /\ UNCHANGED <<chatVars, agentVars>>
    /\ i \in DOMAIN calls
    /\ calls[i].mode = "database" /\ calls[i].pc = "upload"
    /\ Fail(i, "AxiosError")
    /\ UNCHANGED renderCrash
    /\ UNCHANGED <<gridData, tableView, state, sharedMessages>>

\* the toast of an upload answered with status 'success'
UploadSuccessful == Toast("File Upload Successful. Now sending schema to AI....",
                          "rows inserted")

\* dispatch of SET_TABLE_INFO with the fields of the upload response
SetTableInfo(data) ==
    state' = Committed(state,
                reducer(state,
                   [type |-> "SET_TABLE_INFO",
                    payload |-> [tableName |-> data.table_name,
                                 rowCount |-> data.rows_inserted,
                                 columns |-> data.columns]]))

\* a query sent to the database through the sqlquery endpoint
SqlQuery(query, table) == [to |-> "sqlquery", query |-> query, table |-> table]

\* the question posted to the agent about a table
AgentRequest(table) == [to |-> "agent", table |-> table]

\* a continuation of the upload that also takes the grid off display
UploadResolvesClearingGrid(i, uploadResponses) ==
    /\ UNCHANGED <<chatVars, agentVars>>
    /\ i \in DOMAIN calls
    /\ calls[i].mode = "database" /\ calls[i].pc = "upload"
    /\ \E data \in uploadResponses :
          IF data.status = "success"
          THEN /\ SetTableInfo(data)
               /\ calls' = [WithRequest(WithToast(calls, i, UploadSuccessful), i,
                                        SqlQuery("structure", data.table_name))
                               EXCEPT ![i].pc = "structure",
                                      ![i].tableName = data.table_name,
                                      ![i].data = data]
               /\ UNCHANGED <<isGridLoading, isDbLoading>>
          ELSE /\ calls' = [calls EXCEPT ![i].pc = "done",
                                         ![i].outcome = "nosuccess",
                                         ![i].data = data]
               /\ Finally(i)
               /\ UNCHANGED state
    /\ gridData' = Committed(gridData, null)
    /\ UNCHANGED renderCrash
    /\ UNCHANGED <<tableView, sharedMessages>>

\* axios.post resolves: on status 'success' the toast, SET_TABLE_INFO and the
\* first query of fetchAndAnalyzeSchema; on any other status only finally
UploadResolves(i, uploadResponses) ==
    /\ UNCHANGED <<chatVars, agentVars>>
    /\ i \in DOMAIN calls
    /\ calls[i].mode = "database" /\ calls[i].pc = "upload"
    /\ \E data \in uploadResponses :
          IF data.status = "success"
          THEN /\ SetTableInfo(data)
               /\ calls' = [WithRequest(WithToast(calls, i, UploadSuccessful), i,
                                        SqlQuery("structure", data.table_name))
                               EXCEPT ![i].pc = "structure",
                                      ![i].tableName = data.table_name,
                                      ![i].data = data]
               /\ UNCHANGED <<isGridLoading, isDbLoading>>
          ELSE /\ calls' = [calls EXCEPT ![i].pc = "done",
                                         ![i].outcome = "nosuccess",
                                         ![i].data = data]
               /\ Finally(i)
               /\ UNCHANGED state
    /\ UNCHANGED renderCrash
    /\ UNCHANGED <<gridData, tableView, sharedMessages>>

\* the toasts of the schema analysis
AnalysisFailed ==
    Toast("Schema Analysis Failed",
          "File was uploaded but schema analysis failed. Please try again.")
AnalysisComplete ==
    Toast("Schema Analysis Complete",
          "Schema sent to AI agent. Check the AI Chat tab for insights.")

\* the catch around the automatic schema analysis, then finally
AnalysisFails(i) ==
    /\ calls' = [WithToast(calls, i, AnalysisFailed)
                    EXCEPT ![i].pc = "done", ![i].outcome = "analysisFailed"]
    /\ Finally(i)

\* fetchAndAnalyzeSchema: the fetch of the structure query rejects
StructureFails(i) ==
    /\ UNCHANGED <<chatVars, agentVars>>
    /\ i \in DOMAIN calls
    /\ calls[i].mode = "database" /\ calls[i].pc = "structure"
    /\ AnalysisFails(i)
    /\ UNCHANGED renderCrash
    /\ UNCHANGED <<gridData, tableView, state, sharedMessages>>

\* fetchAndAnalyzeSchema: the fetch of the structure query resolves; a
\* response that is not ok throws, an ok response is read as text
StructureResolves(i) ==
    /\ UNCHANGED <<chatVars, agentVars>>
    /\ i \in DOMAIN calls
    /\ calls[i].mode = "database" /\ calls[i].pc = "structure"
    /\ \E ok \in BOOLEAN :
          IF ok
          THEN /\ calls' = [calls EXCEPT ![i].pc = "structureText"]
               /\ UNCHANGED <<isGridLoading, isDbLoading>>
          ELSE AnalysisFails(i)
    /\ UNCHANGED renderCrash
    /\ UNCHANGED <<gridData, tableView, state, sharedMessages>>

\* fetchAndAnalyzeSchema: structureResponse.text() rejects
StructureTextRejects(i) ==
    /\ UNCHANGED <<chatVars, agentVars>>
    /\ i \in DOMAIN calls
    /\ calls[i].mode = "database" /\ calls[i].pc = "structureText"
    /\ AnalysisFails(i)
    /\ UNCHANGED renderCrash
    /\ UNCHANGED <<gridData, tableView, state, sharedMessages>>

\* fetchAndAnalyzeSchema: the structure is read and the sample query is sent
StructureTextSettles(i) ==
    /\ UNCHANGED <<chatVars, agentVars>>
    /\ i \in DOMAIN calls
    /\ calls[i].mode = "database" /\ calls[i].pc = "structureText"
    /\ calls' = [WithRequest(calls, i, SqlQuery("sample", calls[i].tableName))
                    EXCEPT ![i].pc = "sample"]
    /\ UNCHANGED renderCrash
    /\ UNCHANGED <<gridData, isGridLoading, isDbLoading, tableView, state,
                   sharedMessages>>

\* fetchAndAnalyzeSchema: the fetch of the sample query rejects
SampleFails(i) ==
    /\ UNCHANGED <<chatVars, agentVars>>
    /\ i \in DOMAIN calls
    /\ calls[i].mode = "database" /\ calls[i].pc = "sample"
    /\ AnalysisFails(i)
    /\ UNCHANGED renderCrash
    /\ UNCHANGED <<gridData, tableView, state, sharedMessages>>

\* fetchAndAnalyzeSchema: the fetch of the sample query resolves; a response
\* that is not ok throws, an ok response is read as text
SampleResolves(i) ==
    /\ UNCHANGED <<chatVars, agentVars>>
    /\ i \in DOMAIN calls
    /\ calls[i].mode = "database" /\ calls[i].pc = "sample"
    /\ \E ok \in BOOLEAN :
          IF ok
          THEN /\ calls' = [calls EXCEPT ![i].pc = "sampleText"]
               /\ UNCHANGED <<isGridLoading, isDbLoading>>
          ELSE AnalysisFails(i)
    /\ UNCHANGED renderCrash
    /\ UNCHANGED <<gridData, tableView, state, sharedMessages>>

\* fetchAndAnalyzeSchema: sampleResponse.text() rejects
SampleTextRejects(i) ==
    /\ UNCHANGED <<chatVars, agentVars>>
    /\ i \in DOMAIN calls
    /\ calls[i].mode = "database" /\ calls[i].pc = "sampleText"
    /\ AnalysisFails(i)
    /\ UNCHANGED renderCrash
    /\ UNCHANGED <<gridData, tableView, state, sharedMessages>>

\* fetchAndAnalyzeSchema returns the structure and the sample rows;
\* sendSchemaToAgent reads the keys of the first sample row (a TypeError when
\* there is none) and posts the prompt
SampleTextSettles(i) ==
    /\ UNCHANGED <<chatVars, agentVars>>
    /\ i \in DOMAIN calls
    /\ calls[i].mode = "database" /\ calls[i].pc = "sampleText"
    /\ \E sampleRows \in 0..1 :
          IF sampleRows = 0
          THEN AnalysisFails(i)
          ELSE /\ calls' = [WithRequest(calls, i, AgentRequest(calls[i].tableName))
                               EXCEPT ![i].pc = "agent"]
               /\ UNCHANGED <<isGridLoading, isDbLoading>>
    /\ UNCHANGED renderCrash
    /\ UNCHANGED <<gridData, tableView, state, sharedMessages>>

\* sendSchemaToAgent: the fetch rejects
AgentFails(i) ==
    /\ UNCHANGED <<chatVars, agentVars>>
    /\ i \in DOMAIN calls
    /\ calls[i].mode = "database" /\ calls[i].pc = "agent"
    /\ AnalysisFails(i)
    /\ UNCHANGED renderCrash
    /\ UNCHANGED <<gridData, tableView, state, sharedMessages>>

\* sendSchemaToAgent: the fetch resolves; a response that is not ok throws,
\* an ok response is decoded as JSON
AgentResolves(i) ==
    /\ UNCHANGED <<chatVars, agentVars>>
    /\ i \in DOMAIN calls
    /\ calls[i].mode = "database" /\ calls[i].pc = "agent"
    /\ \E ok \in BOOLEAN :
          IF ok
          THEN /\ calls' = [calls EXCEPT ![i].pc = "agentJson"]
               /\ UNCHANGED <<isGridLoading, isDbLoading>>
          ELSE AnalysisFails(i)
    /\ UNCHANGED renderCrash
    /\ UNCHANGED <<gridData, tableView, state, sharedMessages>>

\* sendSchemaToAgent: response.json() rejects
AgentJsonRejects(i) ==
    /\ UNCHANGED <<chatVars, agentVars>>
    /\ i \in DOMAIN calls
    /\ calls[i].mode = "database" /\ calls[i].pc = "agentJson"
    /\ AnalysisFails(i)
    /\ UNCHANGED renderCrash
    /\ UNCHANGED <<gridData, tableView, state, sharedMessages>>

\* { role: 'assistant', content: reply.text || reply.message }
AgentMessage(reply) ==
    [role |-> "assistant",
     content |-> IF Truthy(reply.text) THEN reply.text ELSE reply.message]

\* setSharedMessages(prev => [...prev, { role: 'assistant', content:
\* reply.text || reply.message }]): the reply is read by the updater, which
\* React runs when it renders and not in the handler.  For a reply of null
\* the updater throws, so the render of a mounted tree throws.
UpdaterThrows(reply) == reply = null /\ renderCrash = "none"

\* the messages after the updater has run for a reply it can read
AppendAgentMessage(reply) ==
    sharedMessages' = IF renderCrash = "none"
                      THEN Append(sharedMessages, AgentMessage(reply))
                      ELSE sharedMessages

\* sendSchemaToAgent returns the decoded reply, whatever it is: the updater
\* of the assistant message is handed to setSharedMessages, then the toast
\* and finally, whose setter is called before React renders.  The render
\* commits the message and the cleared flag, or throws and commits neither.
AgentJsonSettles(i, replies) ==
    /\ UNCHANGED <<chatVars, agentVars>>
    /\ i \in DOMAIN calls
    /\ calls[i].mode = "database" /\ calls[i].pc = "agentJson"
    /\ calls' = [WithToast(calls, i, AnalysisComplete)
                    EXCEPT ![i].pc = "done", ![i].outcome = "ok"]
    /\ \E reply \in replies :
          IF UpdaterThrows(reply)
          THEN RenderThrows("TypeError: Cannot read properties of null (reading 'text')")
          ELSE /\ UNCHANGED renderCrash
               /\ AppendAgentMessage(reply)
               /\ Finally(i)
               /\ UNCHANGED <<gridData, tableView, state>>

(***************************************************************************)
(* The inputs: the files the user may choose and the answers of the        *)
(* services.                                                               *)
(***************************************************************************)
\* texts drawn character by character
Alphabet == {",", "|", LF, " ", "a"}
RawTexts == UNION {[1..n -> Alphabet] : n \in 0..MaxLen}

\* texts with the header a,b and one data row of one, two or three cells
Cells ==
    {<<>>,
     <<" ">>,
     <<"0">>,
     <<"1", "2">>,
     <<"a", "b", "c">>,
     <<"1", ".", "5", "x">>,
     <<" ", "7", " ">>,
     <<"-", "3">>,
     <<"3", ".", "5", "0">>,
     <<".", "5">>,
     <<"1", "e", "2">>,
     <<"-", "0">>}
HeaderAB == <<"a", ",", "b">>
CellTexts ==
    {HeaderAB \o <<LF>> \o c1 \o <<",">> \o c2 : c1 \in Cells, c2 \in Cells}
    \cup {HeaderAB \o <<LF>> \o c : c \in Cells}
    \cup {HeaderAB \o <<LF>> \o c1 \o <<",">> \o c2 \o <<",", "z">> :
             c1 \in Cells, c2 \in Cells}

\* the end-to-end scenarios
PeopleText ==
    <<"n", "a", "m", "e", ",", "a", "g", "e", ",", "j", "o", "i", "n", "e", "d", LF,
    "A", "l", "i", "c", "e", ",", "3", "0", ",",
    "2", "0", "2", "0", "-", "0", "1", "-", "0", "1", LF,
    "B", "o", "b", ",", ",", "2", "0", "2", "1", "-", "0", "6", "-", "1", "5">>
AmountText ==
    <<"a", "m", "o", "u", "n", "t", LF, "1", ",", "2", "3", "4", ".", "5">>
\* a header row and six data rows
LongText ==
    <<"a", LF, "1", LF, "2", LF, "3", LF, "4", LF, "5", LF, "6">>
\* the header a,b and a row whose two cells are 12.5abc
PrefixText ==
    <<"a", ",", "b", LF, "1", "2", ".", "5", "a", "b", "c", ",",
      "1", "2", ".", "5", "a", "b", "c">>
ScenarioTexts == {PeopleText, AmountText, LongText, PrefixText}

\* texts whose header row holds the header a twice
DuplicateTexts ==
    {<<"a", ",", "a", LF>> \o c1 \o <<",">> \o c2 : c1 \in Cells, c2 \in Cells}

\* three spellings of one header name, and a text with the three as headers
CustomerIdSpaced ==
    <<"C", "u", "s", "t", "o", "m", "e", "r", " ", "I", "D">>
CustomerIdSnake ==
    <<"c", "u", "s", "t", "o", "m", "e", "r", "_", "i", "d">>
CustomerIdUpper ==
    <<"C", "U", "S", "T", "O", "M", "E", "R", "I", "D">>
Spellings == {CustomerIdSpaced, CustomerIdSnake, CustomerIdUpper}
SpellingText ==
    CustomerIdSpaced \o <<",">> \o CustomerIdSnake \o <<",">> \o CustomerIdUpper
        \o <<LF, "7", ",", "8", ",", "9">>

\* two header strings with one normalized key
CollidingText ==
    <<"a", "_", "b", ",", "a", "b", LF, "7", ",", "8", ".", "5">>

\* the header __proto__ beside the header b, with a cell that is a number,
\* empty, 0 or a number followed by a letter; after the header b with a row of
\* one field; and twice, the first cell empty
ProtoTexts ==
    {ProtoKey \o <<",", "b", LF>> \o c \o <<",", "2">> :
        c \in {<<"1">>, <<>>, <<"0">>, <<"1", ".", "5", "x">>}}
    \cup {<<"b", ",">> \o ProtoKey \o <<LF, "1">>,
          ProtoKey \o <<",">> \o ProtoKey \o <<LF, ",", "5">>}

\* headers with letters and white space outside Basic Latin: the headers
\* U+00C9 _ U+0130 and (between a no-break space and a byte order mark) b,
\* and a row of the cells 7 (between a form feed and a line separator) and
\* one ideographic space
AccentText ==
    <<"U+00C9", "_", "U+0130", ",", "U+00A0", "b", "U+FEFF", LF,
      "\f", "7", "U+2028", ",", "U+3000">>

Texts ==
    RawTexts \cup CellTexts \cup ScenarioTexts \cup DuplicateTexts
        \cup ProtoTexts \cup {SpellingText, CollidingText, AccentText}

\* column entries of an inference response
Entries ==
    {Col(Str(<<"a">>), Tok("INTEGER"), Tok("d")),
     Col(Str(<<"a">>), Tok("NUMERIC"), Tok("d")),
     Col(Str(<<"b">>), Tok("NUMERIC"), Tok("d")),
     Col(Str(<<"A", "_">>), Tok("TEXT"), Tok("d")),
     Col(Str(<<"a">>), Tok("BOOLEAN"), Tok("d")),
     Col(Str(<<"a">>), Tok("TIMESTAMP"), Tok("d")),
     Col(Str(<<"b">>), Tok("DATE"), Tok("d")),
     Col(Str(<<"a">>), Tok(""), Tok("d")),
     Col(Str(<<"a">>), undefined, Tok("d")),
     Col(Str(<<"b">>), Tok("INTEGER"), undefined),
     Col(undefined, Tok("INTEGER"), Tok("d"))}

ColumnArrays == UNION {[1..n -> Entries] : n \in 0..MaxSchemaCols}

PeopleSchema ==
    SchemaObj(Arr(<<Col(Str(<<"n", "a", "m", "e">>), Tok("TEXT"), Tok("d")),
                    Col(Str(<<"a", "g", "e">>), Tok("INTEGER"), Tok("d")),
                    Col(Str(<<"j", "o", "i", "n", "e", "d">>), Tok("DATE"), Tok("d"))>>))
AmountSchema ==
    SchemaObj(Arr(<<Col(Str(<<"a", "m", "o", "u", "n", "t">>), Tok("NUMERIC"),
                        Tok("d"))>>))
\* both columns of the header a,b typed
IntNumSchema ==
    SchemaObj(Arr(<<Col(Str(<<"a">>), Tok("INTEGER"), Tok("d")),
                    Col(Str(<<"b">>), Tok("NUMERIC"), Tok("d"))>>))

\* one entry that names the column by one of the three spellings
SpellingSchemas ==
    {SchemaObj(Arr(<<Col(Str(n), Tok("INTEGER"), Tok("d"))>>)) : n \in Spellings}

\* two entries whose names have one normalized key, in either order
CollidingSchemas ==
    {SchemaObj(Arr(<<Col(Str(<<"a", "_", "b">>), Tok("NUMERIC"), Tok("d")),
                     Col(Str(<<"A", "B">>), Tok("INTEGER"), Tok("d"))>>)),
     SchemaObj(Arr(<<Col(Str(<<"A", "B">>), Tok("INTEGER"), Tok("d")),
                     Col(Str(<<"a", "_", "b">>), Tok("NUMERIC"), Tok("d"))>>))}

\* the column __proto__ typed INTEGER or NUMERIC, the column b typed NUMERIC
ProtoSchemas ==
    {SchemaObj(Arr(<<Col(Str(ProtoKey), Tok(type), Tok("d")),
                     Col(Str(<<"b">>), Tok("NUMERIC"), Tok("d"))>>)) :
        type \in {"INTEGER", "NUMERIC"}}

\* the columns of AccentText named in lowercase and with a no-break space
AccentSchema ==
    SchemaObj(Arr(<<Col(Str(<<"U+00E9", "i", "U+0307">>), Tok("INTEGER"), Tok("d")),
                    Col(Str(<<"B", "U+00A0">>), Tok("NUMERIC"), Tok("d"))>>))

\* decoded contents: null, a string, objects without a columns array, an
\* array holding null, and the schemas
Contents ==
    {null, Str(<<"a">>), SchemaObj(undefined), SchemaObj(Str(<<"a">>)),
     SchemaObj(Arr(<<null>>)), PeopleSchema, AmountSchema, IntNumSchema}
    \cup SpellingSchemas \cup CollidingSchemas \cup ProtoSchemas
    \cup {AccentSchema}
    \cup {SchemaObj(Arr(c)) : c \in ColumnArrays}

\* the body of an ok response: a body that cannot be read; no JSON; JSON
\* without choices[0].message; a content that JSON.parse rejects; a content
\* that parses to a value
Unreadable == [kind |-> "unreadable"]
Undecodable == [kind |-> "undecodable"]
NoContent == [kind |-> "nocontent"]
Unparsable == [kind |-> "content", parses |-> FALSE]
Parsed(value) == [kind |-> "content", parses |-> TRUE, value |-> value]
Bodies ==
    {Unreadable, Undecodable, NoContent, Unparsable}
       \cup {Parsed(v) : v \in Contents}

\* the data of the upload response
UploadResponses ==
    {[status |-> "success", table_name |-> "t1", rows_inserted |-> 2,
      columns |-> <<"a", "b">>],
     [status |-> "error", table_name |-> "", rows_inserted |-> 0,
      columns |-> <<>>]}

\* the data of the upload response of a database of the user
CustomUploadResponses ==
    {[status |-> "success", table_name |-> "t2", rows_inserted |-> 3,
      columns |-> <<"c">>],
     [status |-> "error", table_name |-> "", rows_inserted |-> 0,
      columns |-> <<>>]}

\* the decoded replies of the agent: null, and objects with a text, with a
\* message only, and with neither
Replies ==
    {null,
     [text |-> Tok("understood"), message |-> undefined],
     [text |-> undefined, message |-> Tok("busy")],
     [text |-> undefined, message |-> undefined]}

\* the inputs of a session of several uploads
SessionTexts ==
    {<<" ", LF>>, <<"a", LF, "1">>, <<"a", ",", "b", LF, "1", ",", "x", LF, "2">>}
SessionBodies ==
    {Unreadable, Unparsable, Parsed(SchemaObj(undefined)),
     Parsed(SchemaObj(Arr(<<Col(Str(<<"a">>), Tok("INTEGER"), Tok("d"))>>)))}

(***************************************************************************)
(* The next-state relation.                                                *)
(***************************************************************************)
Modes == {"grid", "database"}

\* the steps of the schema analysis of database-mode call i
Analysis(i, replies) ==
    \/ StructureFails(i)
    \/ StructureResolves(i)
    \/ StructureTextRejects(i)
    \/ StructureTextSettles(i)
    \/ SampleFails(i)
    \/ SampleResolves(i)
    \/ SampleTextRejects(i)
    \/ SampleTextSettles(i)
    \/ AgentFails(i)
    \/ AgentResolves(i)
    \/ AgentJsonRejects(i)
    \/ AgentJsonSettles(i, replies)

Step(texts, bodies, limit) ==
    \/ \E mode \in Modes : ClickNoFile(mode, limit)
    \/ \E mode \in Modes : ClickUpload(mode, texts, limit)
    \/ \E i \in 1..limit :
          \/ TextRejects(i)
          \/ TextSettles(i)
          \/ FetchRejects(i)
          \/ FetchResolves(i)
          \/ ErrorTextSettles(i)
          \/ ErrorTextRejects(i)
          \/ JsonSettles(i, bodies)
          \/ UploadRejects(i)
          \/ UploadResolves(i, UploadResponses)
          \/ Analysis(i, Replies)

\* one upload of any of the texts, answered by any of the bodies
Next == Step(Texts, Bodies, 1)
Spec == Init /\ [][Next]_vars

\* a session of up to MaxUploads uploads through the two buttons
NextSession == Step(SessionTexts, SessionBodies, MaxUploads)
SpecSession == Init /\ [][NextSession]_vars

\* the actions dispatched to the reducer, one of them of no known type
ReducerActions ==
    {[type |-> "SET_FILES", payload |-> [main |-> Tok("main.csv"), summary |-> null]],
     [type |-> "SET_LOADING", payload |-> TRUE],
     [type |-> "SET_ERROR", payload |-> Tok("failed")],
     [type |-> "SET_STATUS", payload |-> "success"],
     [type |-> "SET_PROGRESS", payload |-> 50],
     [type |-> "ADD_CHART", payload |-> [url |-> "u1", timestamp |-> 1]],
     [type |-> "ADD_CHART", payload |-> [url |-> "u2", timestamp |-> 2]],
     [type |-> "RESET"],
     [type |-> "SET_TABLE_INFO",
      payload |-> [tableName |-> "t1", rowCount |-> 2, columns |-> <<"a", "b">>]],
     [type |-> "UNKNOWN", payload |-> TRUE]}

\* dispatch(action): the state of useReducer becomes reducer(state, action)
Dispatch(actions) ==
    /\ \E action \in actions :
          /\ action.type = "ADD_CHART" => Len(state.charts) < MaxCharts
          /\ state' = reducer(state, action)
    /\ Mounted
    /\ UNCHANGED <<chatVars, uploadVars, agentVars, sharedMessages>>

\* any sequence of dispatched actions
NextReducer == Dispatch(ReducerActions)
SpecReducer == Init /\ [][NextReducer]_vars

(***************************************************************************)
(* The ChatBox component: handleSubmit and query.  Its messages are the     *)
(* sharedMessages of the App component and onMessageUpdate is their setter. *)
(***************************************************************************)
\* the texts typed into the textarea
ChatInputs == {<<>>, <<" ", LF>>, <<" ", "q", " ">>}

\* the decoded bodies of the agent's answer: no JSON, null, and objects with
\* text, with message only, with neither, and with an image artifact held
\* in file storage
ChatResults ==
    {[kind |-> "undecodable"],
     [kind |-> "json", value |-> null],
     [kind |-> "json",
      value |-> [t |-> "object", text |-> Tok("answer"), message |-> undefined,
                 image |-> FALSE]],
     [kind |-> "json",
      value |-> [t |-> "object", text |-> undefined, message |-> Tok("busy"),
                 image |-> FALSE]],
     [kind |-> "json",
      value |-> [t |-> "object", text |-> undefined, message |-> undefined,
                 image |-> FALSE]],
     [kind |-> "json",
      value |-> [t |-> "object", text |-> Tok("chart"), message |-> undefined,
                 image |-> TRUE]]}

\* response.text || response.message || response.toString()
MessageContent(response) ==
    IF Truthy(response.text) THEN response.text
    ELSE IF Truthy(response.message) THEN response.message
    ELSE Tok("[object Object]")

Apology == Tok("Sorry, I encountered an error. Please try again.")

Message(role, content) == [role |-> role, content |-> content]

\* the tabs of AnalysisTabs
Tabs == {"structure", "quick", "chat"}

\* a ChatBox is on display
ChatMounted == renderCrash = "none" /\ activeTab = "chat"

\* onValueChange of the Tabs: setActiveTab(tab).  Leaving the chat tab
\* unmounts the ChatBox, whose state is discarded; entering it mounts a new
\* ChatBox, which starts with an empty input and isLoading false.  The
\* calls of handleSubmit of an earlier ChatBox stay suspended at their
\* awaits.
setActiveTab(tabs) ==
    /\ Mounted
    /\ \E tab \in tabs \ {activeTab} :
          /\ tab = "chat" => chatInstance < MaxMounts
          /\ activeTab' = tab
          /\ chatInstance' = IF tab = "chat" THEN chatInstance + 1
                             ELSE chatInstance
    /\ input' = <<>>
    /\ isLoading' = FALSE
    /\ UNCHANGED <<uploadVars, agentVars, state, sharedMessages, submissions>>

\* setInput(e.target.value); the textarea is disabled while isLoading
SetInput(inputs) ==
    /\ ChatMounted
    /\ ~isLoading
    /\ \E text \in inputs : text # input /\ input' = text
    /\ Mounted
    /\ UNCHANGED <<uploadVars, agentVars, state, sharedMessages, isLoading,
                   submissions, tabVars>>

\* a call of handleSubmit: the ChatBox whose handler it is, where it is
\* suspended, how it ended, the decoded answer of the agent and the requests
\* it has issued
NewSubmission(pc, outcome, requests) ==
    [instance |-> chatInstance, pc |-> pc, outcome |-> outcome,
     response |-> null, requests |-> requests]

\* setIsLoading of call k of handleSubmit is the setter of the ChatBox that
\* is on display
OwnChatBox(k) == ChatMounted /\ submissions[k].instance = chatInstance

\* handleSubmit with an input that trims to nothing: the return
SubmitBlank(limit) ==
    /\ ChatMounted
    /\ Len(submissions) < limit
    /\ ~isLoading
    /\ Trim(input) = <<>>
    /\ submissions' = Append(submissions, NewSubmission("done", "blank", <<>>))
    /\ Mounted
    /\ UNCHANGED <<uploadVars, agentVars, state, sharedMessages, input,
                   isLoading, tabVars>>

\* handleSubmit up to the fetch of query: the input is cleared, the user
\* message is appended, isLoading is set and the question is posted
Submit(limit) ==
    /\ ChatMounted
    /\ Len(submissions) < limit
    /\ ~isLoading
    /\ Trim(input) # <<>>
    /\ input' = <<>>
    /\ Mounted
    /\ sharedMessages' = Append(sharedMessages, Message("user", Str(input)))
    /\ isLoading' = TRUE
    /\ submissions' = Append(submissions,
          NewSubmission("fetch", "running",
                        <<[to |-> "chat", question |-> input]>>))
    /\ UNCHANGED <<uploadVars, agentVars, state, tabVars>>

\* the end of handleSubmit: the assistant message through onMessageUpdate,
\* the setter of App, then finally with the setter of the call's ChatBox
Answer(k, content, outcome) ==
    /\ UNCHANGED <<renderCrash, tabVars>>
    /\ sharedMessages' = Committed(sharedMessages,
                             Append(sharedMessages, Message("assistant", content)))
    /\ isLoading' = IF OwnChatBox(k) THEN FALSE ELSE isLoading
    /\ submissions' = [submissions EXCEPT ![k].pc = "done", ![k].outcome = outcome]

\* the catch of handleSubmit: the apology, then finally
Apologize(k) == Answer(k, Apology, "apology")

\* the fetch of query rejects
ChatFetchRejects(k) ==
    /\ k \in DOMAIN submissions
    /\ submissions[k].pc = "fetch"
    /\ Apologize(k)
    /\ UNCHANGED <<uploadVars, agentVars, state, input>>

\* the fetch of query resolves, with response.ok or without
ChatFetchResolves(k) ==
    /\ k \in DOMAIN submissions
    /\ submissions[k].pc = "fetch"
    /\ \E ok \in BOOLEAN :
          submissions' = [submissions EXCEPT
                             ![k].pc = IF ok THEN "json" ELSE "errorText"]
    /\ UNCHANGED renderCrash
    /\ UNCHANGED <<uploadVars, agentVars, state, sharedMessages, input,
                   isLoading, tabVars>>

\* response.text() of a response that is not ok settles: resolved, query
\* throws an error with the text; rejected, the error of the rejection
ChatErrorTextSettles(k) ==
    /\ k \in DOMAIN submissions
    /\ submissions[k].pc = "errorText"
    /\ Apologize(k)
    /\ UNCHANGED <<uploadVars, agentVars, state, input>>

\* response.json() settles: no JSON and null lead to the catch; an image
\* artifact in file storage is fetched; otherwise the message is appended
ChatJsonSettles(k, results) ==
    /\ k \in DOMAIN submissions
    /\ submissions[k].pc = "json"
    /\ \E result \in results :
          IF result.kind = "undecodable" \/ result.value = null
          THEN Apologize(k)
          ELSE IF result.value.image
          THEN /\ submissions' =
                     [WithRequest(submissions, k, [to |-> "image"])
                         EXCEPT ![k].pc = "image", ![k].response = result.value]
               /\ UNCHANGED <<renderCrash, tabVars>>
               /\ UNCHANGED <<sharedMessages, isLoading>>
          ELSE Answer(k, MessageContent(result.value), "replied")
    /\ UNCHANGED <<uploadVars, agentVars, state, input>>

\* the end of handleSubmit after the download of the image was tried
AnswerWithImage(k) == Answer(k, MessageContent(submissions[k].response), "replied")

\* the fetch of the image rejects: the inner catch, then the message
ChatImageRejects(k) ==
    /\ k \in DOMAIN submissions
    /\ submissions[k].pc = "image"
    /\ AnswerWithImage(k)
    /\ UNCHANGED <<uploadVars, agentVars, state, input>>

\* the fetch of the image resolves: an ok response is read as a blob; a
\* response that is not ok throws into the inner catch, then the message
ChatImageResolves(k) ==
    /\ k \in DOMAIN submissions
    /\ submissions[k].pc = "image"
    /\ \E ok \in BOOLEAN :
          IF ok
          THEN /\ submissions' = [submissions EXCEPT ![k].pc = "blob"]
               /\ UNCHANGED <<renderCrash, tabVars>>
               /\ UNCHANGED <<sharedMessages, isLoading>>
          ELSE AnswerWithImage(k)
    /\ UNCHANGED <<uploadVars, agentVars, state, input>>

\* imgResponse.blob() rejects: the inner catch, then the message
ChatBlobRejects(k) ==
    /\ k \in DOMAIN submissions
    /\ submissions[k].pc = "blob"
    /\ AnswerWithImage(k)
    /\ UNCHANGED <<uploadVars, agentVars, state, input>>

\* handleNewChart, the listener of the newChart event: ADD_CHART
handleNewChart(detail) ==
    state' = Committed(state,
                reducer(state, [type |-> "ADD_CHART", payload |-> detail]))

\* imgResponse.blob() resolves: the newChart event is dispatched, which
\* handleNewChart turns into ADD_CHART; then the message
ChatBlobSettles(k) ==
    /\ k \in DOMAIN submissions
    /\ submissions[k].pc = "blob"
    /\ handleNewChart([url |-> "blob", timestamp |-> k])
    /\ AnswerWithImage(k)
    /\ UNCHANGED <<uploadVars, agentVars, input>>

(***************************************************************************)
(* The handlers of the database connection: handleQuickConnect,            *)
(* handlePushToMyDb with handleCustomPushToDb, and handleCreateNeonDb,     *)
(* whose timer calls handleQuickConnect.  Beside handleFileUpload, the     *)
(* ChatBox and the newChart listener they are the only writers of          *)
(* sharedMessages and of the reducer's state.                              *)
(***************************************************************************)
\* a call of one of the three handlers
NewTask(handler, pc, requests) ==
    [handler |-> handler, pc |-> pc, outcome |-> "running",
     toasts |-> <<>>, requests |-> requests,
     tableName |-> "", dbType |-> "",
     stale |-> FALSE, timer |-> "none"]

\* a call that returns before its first await, with the toasts it shows
Returned(handler, outcome, toasts) ==
    [NewTask(handler, "done", <<>>) EXCEPT !.outcome = outcome,
                                           !.toasts = toasts]

\* task t has ended with the outcome
Ended(ts, t, outcome) == [ts EXCEPT ![t].pc = "done", ![t].outcome = outcome]

\* the connection details typed into the dialog, with the nickname, and the
\* details of a database that was created
TypedDetails == Tok("connection string, Nickname: teak")
CreatedDetails == Tok("Host, Database, Username, Password, Port, Type, Nickname")

\* handleQuickConnect(connectionString) up to its first await, where
\* quickConnecting is the value of isQuickConnecting in the render whose
\* handler is called: the return when it is set; otherwise the flag, the
\* stored credentials and the fetch of the agent
StartConnect(ts, quickConnecting, connectionString) ==
    IF quickConnecting
    THEN /\ tasks' = Append(ts, Returned("handleQuickConnect", "returned", <<>>))
         /\ UNCHANGED <<isQuickConnecting, storedCredentials>>
    ELSE /\ tasks' = Append(ts,
                NewTask("handleQuickConnect", "fetch",
                        <<[to |-> "agent", details |-> connectionString]>>))
         /\ isQuickConnecting' = Committed(isQuickConnecting, TRUE)
         /\ storedCredentials' = Committed(storedCredentials, connectionString)

\* the click on Connect in the dialog, which is disabled while
\* isQuickConnecting is set
ConnectClick(limit) ==
    /\ Len(tasks) < limit
    /\ ~isQuickConnecting
    /\ StartConnect(tasks, isQuickConnecting, TypedDetails)
    /\ Mounted
    /\ UNCHANGED <<chatVars, uploadVars, state, sharedMessages,
                   isCustomDbLoading, isCreatingDb>>

\* the catch of handleQuickConnect: the toast with the message of the
\* error, then finally
ConnectFails(t, message) ==
    /\ tasks' = Ended(WithToast(tasks, t, Toast("Connection Failed", message)),
                      t, "failed")
    /\ isQuickConnecting' = Committed(isQuickConnecting, FALSE)

\* task t is a call of the handler suspended at pc
At(t, handler, pc) ==
    /\ t \in DOMAIN tasks
    /\ tasks[t].handler = handler
    /\ tasks[t].pc = pc

\* the fetch of handleQuickConnect rejects
ConnectFetchRejects(t) ==
    /\ At(t, "handleQuickConnect", "fetch")
    /\ ConnectFails(t, "Failed to fetch")
    /\ UNCHANGED renderCrash
    /\ UNCHANGED <<chatVars, uploadVars, state, sharedMessages,
                   isCustomDbLoading, isCreatingDb, storedCredentials>>

\* the fetch of handleQuickConnect resolves: a response that is not ok
\* throws, an ok response is decoded as JSON
ConnectFetchResolves(t) ==
    /\ At(t, "handleQuickConnect", "fetch")
    /\ \E ok \in BOOLEAN :
          IF ok
          THEN /\ tasks' = [tasks EXCEPT ![t].pc = "json"]
               /\ UNCHANGED isQuickConnecting
          ELSE ConnectFails(t, "Failed to send to agent")
    /\ UNCHANGED renderCrash
    /\ UNCHANGED <<chatVars, uploadVars, state, sharedMessages,
                   isCustomDbLoading, isCreatingDb, storedCredentials>>

\* response.json() of handleQuickConnect rejects
ConnectJsonRejects(t) ==
    /\ At(t, "handleQuickConnect", "json")
    /\ ConnectFails(t, "SyntaxError")
    /\ UNCHANGED renderCrash
    /\ UNCHANGED <<chatVars, uploadVars, state, sharedMessages,
                   isCustomDbLoading, isCreatingDb, storedCredentials>>

\* response.json() of handleQuickConnect resolves, whatever the result: the
\* updater of the assistant message is handed to setSharedMessages, then the
\* toast and finally
ConnectJsonSettles(t, replies) ==
    /\ At(t, "handleQuickConnect", "json")
    /\ tasks' = Ended(WithToast(tasks, t,
                         Toast("AI Agent Response",
                               "Check the AI Chat tab for the response")),
                      t, "ok")
    /\ \E reply \in replies :
          IF UpdaterThrows(reply)
          THEN RenderThrows("TypeError: Cannot read properties of null (reading 'text')")
          ELSE /\ UNCHANGED renderCrash
               /\ AppendAgentMessage(reply)
               /\ isQuickConnecting' = Committed(isQuickConnecting, FALSE)
               /\ UNCHANGED <<state, isCustomDbLoading, isCreatingDb,
                              storedCredentials>>
    /\ UNCHANGED <<chatVars, uploadVars>>

\* the click on Push to Your Database with no file chosen: the toast
PushClickNoFile(limit) ==
    /\ Len(tasks) < limit
    /\ tasks' = Append(tasks,
          Returned("handlePushToMyDb", "nofile",
                   <<Toast("Missing File", "Please choose a file first")>>))
    /\ Mounted
    /\ UNCHANGED <<chatVars, uploadVars, state, sharedMessages,
                   isQuickConnecting, isCustomDbLoading, isCreatingDb,
                   storedCredentials>>

\* the click with a file chosen, handlePushToMyDb up to its first await:
\* without stored credentials the toast and the return; otherwise the flag
\* and the fetch of parseCredentialsWithAI.  The button is enabled also
\* while isCustomDbLoading is set.
PushClick(limit) ==
    /\ Len(tasks) < limit
    /\ IF ~Truthy(storedCredentials)
       THEN /\ tasks' = Append(tasks,
                  Returned("handlePushToMyDb", "noconnection",
                           <<Toast("No Database Connection",
                                   "Please connect to a database first")>>))
            /\ UNCHANGED isCustomDbLoading
       ELSE /\ tasks' = Append(tasks,
                  NewTask("handlePushToMyDb", "credFetch",
                          <<[to |-> "credentials",
                             details |-> storedCredentials]>>))
            /\ isCustomDbLoading' = TRUE
    /\ Mounted
    /\ UNCHANGED <<chatVars, uploadVars, state, sharedMessages,
                   isQuickConnecting, isCreatingDb, storedCredentials>>

\* the catch of handlePushToMyDb: the toast with the message of the error,
\* then finally
PushFails(t, message) ==
    /\ tasks' = Ended(WithToast(tasks, t, Toast("Upload Failed", message)),
                      t, "failed")
    /\ isCustomDbLoading' = Committed(isCustomDbLoading, FALSE)

\* the end of handlePushToMyDb after handleCustomPushToDb has returned
PushReturns(ts, t, outcome) ==
    /\ tasks' = Ended(ts, t, outcome)
    /\ isCustomDbLoading' = Committed(isCustomDbLoading, FALSE)

\* parseCredentialsWithAI: the fetch rejects; its catch wraps the error
CredFetchRejects(t) ==
    /\ At(t, "handlePushToMyDb", "credFetch")
    /\ PushFails(t, "Failed to parse database credentials: Failed to fetch")
    /\ UNCHANGED renderCrash
    /\ UNCHANGED <<chatVars, uploadVars, state, sharedMessages,
                   isQuickConnecting, isCreatingDb, storedCredentials>>

\* parseCredentialsWithAI: the fetch resolves; the response is decoded as
\* JSON whatever its status
CredFetchResolves(t) ==
    /\ At(t, "handlePushToMyDb", "credFetch")
    /\ tasks' = [tasks EXCEPT ![t].pc = "credJson"]
    /\ UNCHANGED renderCrash
    /\ UNCHANGED <<chatVars, uploadVars, state, sharedMessages,
                   isQuickConnecting, isCustomDbLoading, isCreatingDb,
                   storedCredentials>>

\* the characters of a sequence as one string
RECURSIVE Concat(_)
Concat(s) == IF s = <<>> THEN "" ELSE Head(s) \o Concat(Tail(s))

\* the parentheses of a pattern read from the left, depth groups being
\* open: "" when they match, or what the pattern is rejected for
RECURSIVE GroupError(_, _)
GroupError(pattern, depth) ==
    IF pattern = <<>>
    THEN (IF depth > 0 THEN "Unterminated group" ELSE "")
    ELSE IF Head(pattern) = "("
    THEN GroupError(Tail(pattern), depth + 1)
    ELSE IF Head(pattern) = ")"
    THEN (IF depth = 0 THEN "Unmatched ')'"
          ELSE GroupError(Tail(pattern), depth - 1))
    ELSE GroupError(Tail(pattern), depth)

\* new RegExp(pattern, flags) for a pattern of letters, dots and
\* parentheses: the message of the SyntaxError it throws, "" when it
\* throws none
RegExpError(pattern, flags) ==
    IF GroupError(pattern, 0) = "" THEN ""
    ELSE "Invalid regular expression: /" \o Concat(pattern) \o "/" \o flags
            \o ": " \o GroupError(pattern, 0)

\* the upload endpoint and the label of a database type
CustomUpload(dbType, file) == [to |-> "customUpload", dbType |-> dbType, file |-> file]
Label(dbType) == IF dbType = "postgresql" THEN "PostgreSQL" ELSE "MySQL"

\* parseCredentialsWithAI: response.json() settles.  No JSON, no
\* choices[0].message, a content that does not parse, a missing field and an
\* unknown db_type are errors, wrapped by its catch; with the credentials
\* handleCustomPushToDb makes a regular expression of the password (for its
\* log line, before its try: the error of a password that is no pattern
\* reaches the catch of handlePushToMyDb) and posts the file to the endpoint
\* of the database type
CredJsonSettles(t, bodies) ==
    /\ At(t, "handlePushToMyDb", "credJson")
    /\ \E body \in bodies :
          IF body.kind = "undecodable"
          THEN PushFails(t, "Failed to parse database credentials: SyntaxError")
          ELSE IF body.kind = "nocontent"
          THEN PushFails(t, "Failed to parse database credentials: TypeError")
          ELSE IF ~body.parses
          THEN PushFails(t, "Failed to parse database credentials: SyntaxError")
          ELSE IF ~body.value.complete
          THEN PushFails(t,
                  "Failed to parse database credentials: Missing required fields: host")
          ELSE IF body.value.db_type \notin {"postgresql", "mysql"}
          THEN PushFails(t,
                  "Failed to parse database credentials: Invalid database type. Must be either \"postgresql\" or \"mysql\"")
          ELSE IF RegExpError(body.value.password, "g") # ""
          THEN PushFails(t, RegExpError(body.value.password, "g"))
          ELSE /\ tasks' = [WithRequest(tasks, t,
                               CustomUpload(body.value.db_type, "file"))
                               EXCEPT ![t].pc = "upload",
                                      ![t].dbType = body.value.db_type]
               /\ UNCHANGED isCustomDbLoading
    /\ UNCHANGED renderCrash
    /\ UNCHANGED <<chatVars, uploadVars, state, sharedMessages,
                   isQuickConnecting, isCreatingDb, storedCredentials>>

\* the data of the response an AxiosError carries: none (no response, or
\* an error that is no AxiosError), a string, and an object with its JSON
\* text
RejectionData ==
    {undefined, Tok(""), Tok("Bad Gateway"),
     [t |-> "object", json |-> "{\"detail\":\"bad\"}"]}

\* errorMessage of the catch of handleCustomPushToDb
ErrorMessage(data) ==
    IF data.t = "object" THEN data.json
    ELSE IF Truthy(data) THEN data.a
    ELSE "An unexpected error occurred"

\* handleCustomPushToDb: axios.post rejects; its catch throws the error of
\* the database type with the data of the response, which reaches the catch
\* of handlePushToMyDb
CustomUploadRejects(t) ==
    /\ At(t, "handlePushToMyDb", "upload")
    /\ \E data \in RejectionData :
          PushFails(t, Label(tasks[t].dbType) \o " Upload failed: "
                          \o ErrorMessage(data))
    /\ UNCHANGED renderCrash
    /\ UNCHANGED <<chatVars, uploadVars, state, sharedMessages,
                   isQuickConnecting, isCreatingDb, storedCredentials>>

\* handleCustomPushToDb: axios.post resolves: on status 'success' the toast,
\* SET_TABLE_INFO and the first query of fetchAndAnalyzeSchemaCustomDB; on
\* any other status the return, and the finally of handlePushToMyDb
CustomUploadResolves(t, uploadResponses) ==
    /\ At(t, "handlePushToMyDb", "upload")
    /\ \E data \in uploadResponses :
          IF data.status = "success"
          THEN /\ SetTableInfo(data)
               /\ tasks' = [WithRequest(
                               WithToast(tasks, t,
                                  Toast("File Upload Successful. Now sending schema to AI....",
                                        Label(tasks[t].dbType))),
                               t, SqlQuery("structure", data.table_name))
                               EXCEPT ![t].pc = "structure",
                                      ![t].tableName = data.table_name]
               /\ UNCHANGED isCustomDbLoading
          ELSE /\ PushReturns(tasks, t, "nosuccess")
               /\ UNCHANGED state
    /\ UNCHANGED renderCrash
    /\ UNCHANGED <<chatVars, uploadVars, sharedMessages, isQuickConnecting,
                   isCreatingDb, storedCredentials>>

\* the catch around the schema analysis of handleCustomPushToDb: the toast,
\* the return, and the finally of handlePushToMyDb
CustomAnalysisFails(t) ==
    PushReturns(WithToast(tasks, t, AnalysisFailed), t, "analysisFailed")

\* what the steps of the schema analysis of a push leave as it is
CustomFrame ==
    /\ UNCHANGED renderCrash
    /\ UNCHANGED <<chatVars, uploadVars, state, sharedMessages,
                   isQuickConnecting, isCreatingDb, storedCredentials>>

\* fetchAndAnalyzeSchemaCustomDB: the fetch of the structure query rejects
CustomStructureFails(t) ==
    /\ At(t, "handlePushToMyDb", "structure")
    /\ CustomAnalysisFails(t)
    /\ CustomFrame

\* fetchAndAnalyzeSchemaCustomDB: the fetch of the structure query resolves
CustomStructureResolves(t) ==
    /\ At(t, "handlePushToMyDb", "structure")
    /\ \E ok \in BOOLEAN :
          IF ok
          THEN /\ tasks' = [tasks EXCEPT ![t].pc = "structureText"]
               /\ UNCHANGED isCustomDbLoading
          ELSE CustomAnalysisFails(t)
    /\ CustomFrame

\* fetchAndAnalyzeSchemaCustomDB: structureResponse.text() rejects
CustomStructureTextRejects(t) ==
    /\ At(t, "handlePushToMyDb", "structureText")
    /\ CustomAnalysisFails(t)
    /\ CustomFrame

\* fetchAndAnalyzeSchemaCustomDB: the structure is read and the sample query
\* is sent
CustomStructureTextSettles(t) ==
    /\ At(t, "handlePushToMyDb", "structureText")
    /\ tasks' = [WithRequest(tasks, t, SqlQuery("sample", tasks[t].tableName))
                    EXCEPT ![t].pc = "sample"]
    /\ UNCHANGED isCustomDbLoading
    /\ CustomFrame

\* fetchAndAnalyzeSchemaCustomDB: the fetch of the sample query rejects
CustomSampleFails(t) ==
    /\ At(t, "handlePushToMyDb", "sample")
    /\ CustomAnalysisFails(t)
    /\ CustomFrame

\* fetchAndAnalyzeSchemaCustomDB: the fetch of the sample query resolves
CustomSampleResolves(t) ==
    /\ At(t, "handlePushToMyDb", "sample")
    /\ \E ok \in BOOLEAN :
          IF ok
          THEN /\ tasks' = [tasks EXCEPT ![t].pc = "sampleText"]
               /\ UNCHANGED isCustomDbLoading
          ELSE CustomAnalysisFails(t)
    /\ CustomFrame

\* fetchAndAnalyzeSchemaCustomDB: sampleResponse.text() rejects
CustomSampleTextRejects(t) ==
    /\ At(t, "handlePushToMyDb", "sampleText")
    /\ CustomAnalysisFails(t)
    /\ CustomFrame

\* fetchAndAnalyzeSchemaCustomDB returns; sendSchemaToAgent reads the keys of
\* the first sample row (a TypeError when there is none) and posts the prompt
CustomSampleTextSettles(t) ==
    /\ At(t, "handlePushToMyDb", "sampleText")
    /\ \E sampleRows \in 0..1 :
          IF sampleRows = 0
          THEN CustomAnalysisFails(t)
          ELSE /\ tasks' = [WithRequest(tasks, t, AgentRequest(tasks[t].tableName))
                               EXCEPT ![t].pc = "agent"]
               /\ UNCHANGED isCustomDbLoading
    /\ CustomFrame

\* sendSchemaToAgent, called by handleCustomPushToDb: the fetch rejects
CustomAgentFails(t) ==
    /\ At(t, "handlePushToMyDb", "agent")
    /\ CustomAnalysisFails(t)
    /\ CustomFrame

\* sendSchemaToAgent, called by handleCustomPushToDb: the fetch resolves
CustomAgentResolves(t) ==
    /\ At(t, "handlePushToMyDb", "agent")
    /\ \E ok \in BOOLEAN :
          IF ok
          THEN /\ tasks' = [tasks EXCEPT ![t].pc = "agentJson"]
               /\ UNCHANGED isCustomDbLoading
          ELSE CustomAnalysisFails(t)
    /\ CustomFrame

\* sendSchemaToAgent, called by handleCustomPushToDb: response.json() rejects
CustomAgentJsonRejects(t) ==
    /\ At(t, "handlePushToMyDb", "agentJson")
    /\ CustomAnalysisFails(t)
    /\ CustomFrame

\* sendSchemaToAgent returns the decoded reply to handleCustomPushToDb,
\* whatever it is: the updater of the assistant message is handed to
\* setSharedMessages, then the toast, the return and the finally of
\* handlePushToMyDb
CustomAgentJsonSettles(t, replies) ==
    /\ At(t, "handlePushToMyDb", "agentJson")
    /\ \E reply \in replies :
          IF UpdaterThrows(reply)
          THEN /\ RenderThrows("TypeError: Cannot read properties of null (reading 'text')")
               /\ tasks' = Ended(WithToast(tasks, t, AnalysisComplete), t, "ok")
          ELSE /\ UNCHANGED renderCrash
               /\ AppendAgentMessage(reply)
               /\ PushReturns(WithToast(tasks, t, AnalysisComplete), t, "ok")
               /\ UNCHANGED <<state, isQuickConnecting, isCreatingDb,
                              storedCredentials>>
    /\ UNCHANGED <<chatVars, uploadVars>>

\* the click on Create in the dialog, which is disabled while isCreatingDb
\* is set: handleCreateNeonDb up to its first await.  The handleQuickConnect
\* it will call is that of this render, with this render's isQuickConnecting
CreateDbClick(limit) ==
    /\ Len(tasks) < limit
    /\ ~isCreatingDb
    /\ isCreatingDb' = TRUE
    /\ tasks' = Append(tasks,
          [NewTask("handleCreateNeonDb", "post", <<[to |-> "create-neon-db"]>>)
              EXCEPT !.stale = isQuickConnecting])
    /\ Mounted
    /\ UNCHANGED <<chatVars, uploadVars, state, sharedMessages,
                   isQuickConnecting, isCustomDbLoading, storedCredentials>>

\* the catch of handleCreateNeonDb: the toast, then finally
CreateDbFails(t, message) ==
    /\ tasks' = Ended(WithToast(tasks, t,
                         Toast("Database Creation Failed", message)),
                      t, "failed")
    /\ isCreatingDb' = Committed(isCreatingDb, FALSE)

\* axios.post of handleCreateNeonDb rejects
CreateDbRejects(t) ==
    /\ At(t, "handleCreateNeonDb", "post")
    /\ CreateDbFails(t, "AxiosError")
    /\ UNCHANGED renderCrash
    /\ UNCHANGED <<chatVars, uploadVars, state, sharedMessages,
                   isQuickConnecting, isCustomDbLoading, storedCredentials>>

\* axios.post of handleCreateNeonDb resolves: reading the fields of a data
\* of null is a TypeError; otherwise the timer of one second is set and,
\* for a signed-in user with a webhook configured, the webhook is fetched
CreateDbResolves(t) ==
    /\ At(t, "handleCreateNeonDb", "post")
    /\ \E data \in {"object", "null"}, webhook \in BOOLEAN :
          IF data = "null"
          THEN CreateDbFails(t, "TypeError")
          ELSE IF webhook
          THEN /\ tasks' = [WithRequest(tasks, t, [to |-> "webhook"])
                               EXCEPT ![t].pc = "webhook",
                                      ![t].timer = "pending"]
               /\ UNCHANGED isCreatingDb
          ELSE /\ tasks' = Ended([tasks EXCEPT ![t].timer = "pending"], t, "ok")
               /\ isCreatingDb' = Committed(isCreatingDb, FALSE)
    /\ UNCHANGED renderCrash
    /\ UNCHANGED <<chatVars, uploadVars, state, sharedMessages,
                   isQuickConnecting, isCustomDbLoading, storedCredentials>>

\* the fetch of the webhook settles: resolved, nothing; rejected, the toast
\* of the delayed sync; then finally
WebhookSettles(t) ==
    /\ At(t, "handleCreateNeonDb", "webhook")
    /\ \E resolved \in BOOLEAN :
          tasks' = Ended(IF resolved THEN tasks
                         ELSE WithToast(tasks, t,
                                 Toast("Note",
                                       "Database created successfully, but user data sync delayed")),
                         t, "ok")
    /\ isCreatingDb' = Committed(isCreatingDb, FALSE)
    /\ UNCHANGED renderCrash
    /\ UNCHANGED <<chatVars, uploadVars, state, sharedMessages,
                   isQuickConnecting, isCustomDbLoading, storedCredentials>>

\* the timer of handleCreateNeonDb fires: handleQuickConnect is called with
\* the details of the new database, as the render of the click defined it
TimerFires(t, limit) ==
    /\ t \in DOMAIN tasks
    /\ tasks[t].handler = "handleCreateNeonDb"
    /\ tasks[t].timer = "pending"
    /\ Len(tasks) < limit
    /\ StartConnect([tasks EXCEPT ![t].timer = "fired"], tasks[t].stale,
                    CreatedDetails)
    /\ UNCHANGED renderCrash
    /\ UNCHANGED <<chatVars, uploadVars, state, sharedMessages,
                   isCustomDbLoading, isCreatingDb>>

\* the decoded bodies of the answer to parseCredentialsWithAI; credentials
\* that are not complete lack the host
Credentials(complete, dbType, password) ==
    [complete |-> complete, db_type |-> dbType, password |-> password]
CredentialBodies ==
    {Undecodable, NoContent, Unparsable,
     Parsed(Credentials(FALSE, "postgresql", <<"p">>)),
     Parsed(Credentials(TRUE, "sqlite", <<"p">>)),
     Parsed(Credentials(TRUE, "postgresql", <<"p">>)),
     Parsed(Credentials(TRUE, "postgresql", <<"p", ".", "q">>)),
     Parsed(Credentials(TRUE, "postgresql", <<"a", "(", "b">>)),
     Parsed(Credentials(TRUE, "mysql", <<"(", "p", ")">>)),
     Parsed(Credentials(TRUE, "mysql", <<"a", ")">>))}

\* the steps of the calls of the three handlers, at most limit calls
AgentStep(limit, uploadResponses, replies) ==
    \/ ConnectClick(limit)
    \/ PushClickNoFile(limit)
    \/ PushClick(limit)
    \/ CreateDbClick(limit)
    \/ \E t \in 1..limit :
          \/ ConnectFetchRejects(t)
          \/ ConnectFetchResolves(t)
          \/ ConnectJsonRejects(t)
          \/ ConnectJsonSettles(t, replies)
          \/ CredFetchRejects(t)
          \/ CredFetchResolves(t)
          \/ CredJsonSettles(t, CredentialBodies)
          \/ CustomUploadRejects(t)
          \/ CustomUploadResolves(t, uploadResponses)
          \/ CustomStructureFails(t)
          \/ CustomStructureResolves(t)
          \/ CustomStructureTextRejects(t)
          \/ CustomStructureTextSettles(t)
          \/ CustomSampleFails(t)
          \/ CustomSampleResolves(t)
          \/ CustomSampleTextRejects(t)
          \/ CustomSampleTextSettles(t)
          \/ CustomAgentFails(t)
          \/ CustomAgentResolves(t)
          \/ CustomAgentJsonRejects(t)
          \/ CustomAgentJsonSettles(t, replies)
          \/ CreateDbRejects(t)
          \/ CreateDbResolves(t)
          \/ WebhookSettles(t)
          \/ TimerFires(t, limit)

\* the upload answered with success and the agent's reply with a text
UploadSucceeded ==
    [status |-> "success", table_name |-> "t1", rows_inserted |-> 2,
     columns |-> <<"a", "b">>]
Understood == [text |-> Tok("understood"), message |-> undefined]
\* the agent's reply to the connection details
Connected == [text |-> Tok("connected"), message |-> undefined]

\* up to MaxSubmits submissions of the chat form in up to MaxMounts visits
\* of the chat tab, beside one database-mode upload and one quick connect,
\* which append to the same messages and whose agent may reply null
NextChat ==
    \/ setActiveTab(Tabs)
    \/ SetInput(ChatInputs)
    \/ SubmitBlank(MaxSubmits)
    \/ Submit(MaxSubmits)
    \/ \E k \in 1..MaxSubmits :
          \/ ChatFetchRejects(k)
          \/ ChatFetchResolves(k)
          \/ ChatErrorTextSettles(k)
          \/ ChatJsonSettles(k, ChatResults)
          \/ ChatImageRejects(k)
          \/ ChatImageResolves(k)
          \/ ChatBlobRejects(k)
          \/ ChatBlobSettles(k)
    \/ StartUpload("database", {<<"a">>}, 1)
    \/ \E i \in 1..1 :
          \/ UploadRejects(i)
          \/ UploadResolves(i, {UploadSucceeded})
          \/ Analysis(i, {Understood, null})
    \/ ConnectClick(1)
    \/ \E t \in 1..1 :
          \/ ConnectFetchRejects(t)
          \/ ConnectFetchResolves(t)
          \/ ConnectJsonRejects(t)
          \/ ConnectJsonSettles(t, {Connected, null})
SpecChat == Init /\ [][NextChat]_vars

\* up to MaxUploads grid-mode invocations of handleFileUpload, each of which
\* may start while earlier ones are suspended at an await
NextOverlap ==
    \/ StartUpload("grid", SessionTexts, MaxUploads)
    \/ \E i \in 1..MaxUploads :
          \/ TextRejects(i)
          \/ TextSettles(i)
          \/ FetchRejects(i)
          \/ FetchResolves(i)
          \/ ErrorTextSettles(i)
          \/ ErrorTextRejects(i)
          \/ JsonSettles(i, SessionBodies)
SpecOverlap == Init /\ [][NextOverlap]_vars

\* one database-mode upload beside up to MaxTasks calls of the handlers of
\* the database connection, which write the same messages and tableInfo
NextConnect ==
    \/ ClickUpload("database", {<<"a">>}, 1)
    \/ \E i \in 1..1 :
          \/ UploadRejects(i)
          \/ UploadResolves(i, UploadResponses)
          \/ Analysis(i, Replies)
    \/ AgentStep(MaxTasks, CustomUploadResponses, Replies)
SpecConnect == Init /\ [][NextConnect]_vars

(***************************************************************************)
(* The text of a file, read position by position.                          *)
(***************************************************************************)
\* the positions at which a line of the text starts
LineStarts(text) == {p \in 1..(Len(text) + 1) : p = 1 \/ text[p - 1] = LF}

\* the position after the last character of the line that starts at p
LineEnd(text, p) ==
    CHOOSE q \in p..(Len(text) + 1) :
        /\ q = Len(text) + 1 \/ text[q] = LF
        /\ \A m \in p..(q - 1) : text[m] # LF

\* the starts of the lines that hold a character other than white space
NonBlankStarts(text) ==
    {p \in LineStarts(text) :
        \E m \in p..(LineEnd(text, p) - 1) : text[m] \notin WhiteSpace}

NonBlankLineCount(text) == Cardinality(NonBlankStarts(text))

\* the number of fields of the first non-blank line for separator d
HeaderFieldCount(text, d) ==
    LET p == CHOOSE q \in NonBlankStarts(text) :
                 \A o \in NonBlankStarts(text) : q <= o
    IN  1 + Cardinality({m \in p..(LineEnd(text, p) - 1) : text[m] = d})

\* the occurrences of character c before the first line feed
FirstLineCount(text, c) ==
    Cardinality({k \in 1..(LineEnd(text, 1) - 1) : text[k] = c})

(***************************************************************************)
(* The grid on display and the call that produced it.                      *)
(***************************************************************************)
Materialized == gridData # null

GridCallsOk ==
    {i \in DOMAIN calls : calls[i].mode = "grid" /\ calls[i].outcome = "ok"}

\* the latest grid-mode call that set gridData
Producer == CHOOSE i \in GridCallsOk : \A j \in GridCallsOk : j <= i

\* the grid-mode calls that got past the empty check
Tokenized ==
    {i \in DOMAIN calls : calls[i].mode = "grid" /\ calls[i].allRows # <<>>}

\* the grid-mode calls that ran detectDelimiter
Detected ==
    {i \in DOMAIN calls : calls[i].mode = "grid" /\ calls[i].delimiter # ""}

\* position j is the last one that carries its header name
LastOccurrence(headers, j) ==
    \A k \in (j + 1)..Len(headers) : headers[k] # headers[j]

\* the fields of data row r of call c, and the trimmed text of its cell j
RowFields(c, r) == Split(c.allRows[r + 1], c.delimiter)
CellText(c, r, j) ==
    IF j <= Len(RowFields(c, r)) THEN Trim(RowFields(c, r)[j]) ELSE <<>>

\* the value the grid holds in data row r under the header at position j
GridValue(r, j) == ObjGet(gridData.data[r], calls[Producer].headers[j])

NumericColumn(j) == IsNumericType(gridData.columns[j].type)

NoDigit(s) == \A k \in 1..Len(s) : ~IsDigit(s[k])

(***************************************************************************)
(* Claims.                                                                 *)
(***************************************************************************)

\* C1 (as claimed): in every grid on display, a cell of an INTEGER or NUMERIC
\* column whose text is not empty and holds no digit (so it is no number) has
\* the value null.
C1_UnparsableNumericIsNull ==
    Materialized =>
        \A r \in 1..Len(gridData.data) :
            \A j \in 1..Len(gridData.columns) :
                (/\ LastOccurrence(calls[Producer].headers, j)
                 /\ NumericColumn(j)
                 /\ CellText(calls[Producer], r, j) # <<>>
                 /\ NoDigit(CellText(calls[Producer], r, j)))
                => GridValue(r, j) = null

\* C2: the delimiter a call detects is the pipe exactly when the first line
\* of its text holds more pipes than commas, and the comma otherwise.
C2_DelimiterRule ==
    \A i \in Detected :
        /\ calls[i].delimiter \in {",", "|"}
        /\ calls[i].delimiter = "|"
              <=> FirstLineCount(calls[i].text, "|")
                     > FirstLineCount(calls[i].text, ",")

\* C2 witness: a call detected the pipe on a first line with two pipes and a
\* comma, while its text holds more commas than pipes after the first line
C2_Witness ==
    \E i \in Detected :
        /\ calls[i].delimiter = "|"
        /\ FirstLineCount(calls[i].text, ",") = 1
        /\ FirstLineCount(calls[i].text, "|") = 2

\* C3: for a text with a non-blank line, once read, the header list has one entry per
\* delimiter-separated field of the first non-blank line, the row list has
\* one entry per non-blank line, and the grid one data row per non-blank
\* line after the first.
C3_TokenizerCounts ==
    /\ \A i \in Tokenized :
          /\ Len(calls[i].headers)
                = HeaderFieldCount(calls[i].text, calls[i].delimiter)
          /\ Len(calls[i].allRows) - 1 = NonBlankLineCount(calls[i].text) - 1
    /\ \A i \in DOMAIN calls :
          (calls[i].mode = "grid" /\ calls[i].delimiter # ""
           /\ NonBlankLineCount(calls[i].text) > 0) => i \in Tokenized
    /\ Materialized =>
          /\ Len(gridData.data) = NonBlankLineCount(calls[Producer].text) - 1
          /\ Len(gridData.columns)
                = HeaderFieldCount(calls[Producer].text, calls[Producer].delimiter)

\* C3 witness: a grid with one data row built from a text of three lines
\* whose first line is blank
C3_Witness ==
    /\ Materialized
    /\ Len(gridData.data) = 1
    /\ Len(Split(calls[Producer].text, LF)) = 3
    /\ calls[Producer].text[1] = LF

\* the inference requests call i has issued
InferenceRequests(cs, i) ==
    Cardinality({k \in DOMAIN cs[i].requests :
                    cs[i].requests[k].to = "inference"})

BlankText(text) == NonBlankLineCount(text) = 0

UploadFailed(message) == Toast("Upload Failed", message)

\* the step in which call i reads the text of its file (file.text()
\* resolves and the delimiter is detected)
ReadsText(i) ==
    /\ calls[i].mode = "grid"
    /\ calls[i].pc = "text"
    /\ calls'[i].pc # "text"
    /\ calls'[i].delimiter # ""

\* C4: a grid-mode call on a text of blank lines only never issues an
\* inference request and ends failed; the step in which it reads the text
\* ends it, shows the toast with the message 'File is empty' and leaves
\* gridData and the requests of the call as they were.
C4_EmptyInputFails ==
    /\ [](\A i \in DOMAIN calls :
             (calls[i].mode = "grid" /\ BlankText(calls[i].text)) =>
                /\ InferenceRequests(calls, i) = 0
                /\ calls[i].pc \in {"text", "done"}
                /\ calls[i].pc = "done" => calls[i].outcome \in {"failed", "nofile"})
    /\ [][\A i \in DOMAIN calls :
             (BlankText(calls[i].text) /\ ReadsText(i))
             => /\ calls'[i].pc = "done"
                /\ calls'[i].outcome = "failed"
                /\ calls'[i].toasts
                      = Append(calls[i].toasts, UploadFailed("File is empty"))
                /\ calls'[i].requests = calls[i].requests
                /\ gridData' = gridData]_vars

\* C4 witness: a grid is on display and a later grid-mode call on a blank
\* text has ended failed
C4_Witness ==
    /\ Materialized
    /\ \E i \in DOMAIN calls :
          /\ i > Producer
          /\ calls[i].mode = "grid" /\ BlankText(calls[i].text)
          /\ calls[i].text # <<>>
          /\ calls[i].outcome = "failed"
          /\ calls[i].delimiter # ""

\* C5 (as claimed): the grid has as many columns as the header row has
\* distinct header strings.
C5_ColumnsPerDistinctHeader ==
    Materialized =>
        Len(gridData.columns)
            = Cardinality({calls[Producer].headers[j] :
                              j \in 1..Len(calls[Producer].headers)})

\* C5 (amended): the grid has one column for each field of the header row, in
\* order and named after the field, repeated header strings included; that
\* is the number of distinct header strings when no header string repeats.
C5_ColumnPerHeaderField ==
    Materialized =>
        LET headers == calls[Producer].headers IN
        /\ Len(gridData.columns)
              = HeaderFieldCount(calls[Producer].text, calls[Producer].delimiter)
        /\ Len(gridData.columns) = Len(headers)
        /\ \A j \in 1..Len(headers) : gridData.columns[j].field = headers[j]
        /\ (\A j \in 1..Len(headers) : LastOccurrence(headers, j))
              => Len(gridData.columns)
                    = Cardinality({headers[j] : j \in 1..Len(headers)})

\* C5 witness: a grid with two columns of the same header string
C5_Witness ==
    /\ Materialized
    /\ Len(gridData.columns) = 2
    /\ gridData.columns[1].field = gridData.columns[2].field

\* C6 (as claimed):
\* every row of the grid has a key for every header of the header row,
\* and the grid has one row for every non-blank line after the header row.
C6_RowsComplete ==
    Materialized =>
        /\ Len(gridData.data) = NonBlankLineCount(calls[Producer].text) - 1
        /\ \A r \in 1..Len(gridData.data) :
              \A j \in 1..Len(calls[Producer].headers) :
                  ObjHas(gridData.data[r], calls[Producer].headers[j])

\* the inference of call i failed in the step: the fetch rejected, the
\* status was no success, or the content was not parsable JSON
InferenceFailedStep(i) ==
    /\ calls[i].mode = "grid"
    /\ calls[i].pc \in {"fetch", "errorText", "json"}
    /\ calls'[i].pc = "done"
    /\ calls[i].pc = "json" =>
          \/ calls'[i].body.kind \in {"unreadable", "undecodable", "nocontent"}
          \/ ~calls'[i].body.parses

\* C7: a call issues at most one inference request, and the step in which
\* its inference fails ends the call failed with the 'Upload Failed' toast,
\* with exactly one inference request issued for it, no further request,
\* and gridData as it was.
C7_InferenceFailureIsFatal ==
    /\ [](\A i \in DOMAIN calls : InferenceRequests(calls, i) <= 1)
    /\ [][\A i \in DOMAIN calls :
             InferenceFailedStep(i)
             => /\ calls'[i].outcome = "failed"
                /\ InferenceRequests(calls', i) = 1
                /\ calls'[i].requests = calls[i].requests
                /\ Len(calls'[i].toasts) = Len(calls[i].toasts) + 1
                /\ calls'[i].toasts[Len(calls'[i].toasts)].title = "Upload Failed"
                /\ gridData' = gridData]_vars

\* C7 witness: a grid is on display and a later call ended failed on a
\* content that is not parsable JSON
C7_Witness ==
    /\ Materialized
    /\ \E i \in DOMAIN calls :
          /\ i > Producer
          /\ calls[i].body = Unparsable
          /\ calls[i].outcome = "failed"
          /\ InferenceRequests(calls, i) = 1

\* the decoded content has the shape {columns: [{name, type, description}]}
MatchesShape(value) ==
    /\ value.t = "object"
    /\ value.columns.t = "array"
    /\ \A k \in 1..Len(value.columns.items) :
          /\ value.columns.items[k].t = "object"
          /\ value.columns.items[k].name.t = "string"
          /\ value.columns.items[k].type.t = "string"
          /\ value.columns.items[k].description.t = "string"

\* C8 (as claimed): a call whose inference content is valid JSON of another
\* shape ends failed.
C8_MalformedShapeFails ==
    \A i \in DOMAIN calls :
        (/\ calls[i].pc = "done"
         /\ calls[i].body.kind = "content"
         /\ calls[i].body.parses
         /\ ~MatchesShape(calls[i].body.value))
        => calls[i].outcome = "failed"

AllWhite(s) == \A k \in 1..Len(s) : s[k] \in WhiteSpace

\* C9 (as claimed):
\* in an INTEGER or NUMERIC column a cell that is empty or holds white
\* space only has the value null, and the cell 0 has the number 0.
C9_EmptyNumericIsNull ==
    Materialized =>
        \A r \in 1..Len(gridData.data) :
            \A j \in 1..Len(gridData.columns) :
                (/\ LastOccurrence(calls[Producer].headers, j)
                 /\ NumericColumn(j)
                 /\ j <= Len(RowFields(calls[Producer], r)))
                => /\ AllWhite(RowFields(calls[Producer], r)[j])
                         => GridValue(r, j) = null
                   /\ Trim(RowFields(calls[Producer], r)[j]) = <<"0">>
                         => GridValue(r, j) = Num(0, 0)

\* C10 (as claimed):
\* under a header for which the row has no field the grid holds null
\* when the column is INTEGER or NUMERIC and the empty string otherwise; the
\* fields the row has are coerced as in any row.
C10_ShortRow ==
    Materialized =>
        \A r \in 1..Len(gridData.data) :
            \A j \in 1..Len(gridData.columns) :
                LastOccurrence(calls[Producer].headers, j) =>
                    IF j > Len(RowFields(calls[Producer], r))
                    THEN GridValue(r, j)
                            = IF NumericColumn(j) THEN null ELSE Str(<<>>)
                    ELSE GridValue(r, j)
                            = CellValue(gridData.columns[j].type,
                                        Trim(RowFields(calls[Producer], r)[j]))

\* C11 (as claimed):
\* in a column whose type is neither INTEGER nor NUMERIC (TEXT, DATE,
\* TIMESTAMP, a type outside the set, or no schema entry for the header) the
\* grid holds the trimmed text of the field as a string, the empty string
\* for an empty or missing field.
C11_TextPassThrough ==
    Materialized =>
        \A r \in 1..Len(gridData.data) :
            \A j \in 1..Len(gridData.columns) :
                (/\ LastOccurrence(calls[Producer].headers, j)
                 /\ ~NumericColumn(j))
                => /\ GridValue(r, j) = Str(CellText(calls[Producer], r, j))
                   /\ GridValue(r, j) # null

\* the characters of a name other than underscores and white space
Letters(s) == SelectSeq(s, LAMBDA c : c # "_" /\ c \notin WhiteSpace)

\* two characters are the same letter in either case, or the same character
SameLetter(c, d) ==
    \/ c = d
    \/ \E i \in 1..26 : {c, d} = {UpperCase[i], LowerCase[i]}
    \/ c \in DOMAIN LowerTable /\ LowerTable[c] = <<d>>
    \/ d \in DOMAIN LowerTable /\ LowerTable[d] = <<c>>

\* two names differ in letter case, underscores and white space only
SameSpelling(s, t) ==
    /\ Len(Letters(s)) = Len(Letters(t))
    /\ \A k \in 1..Len(Letters(s)) : SameLetter(Letters(s)[k], Letters(t)[k])

\* the type a column shows for a schema entry
ShownType(entry) == IF Truthy(entry.type) THEN entry.type ELSE Tok("TEXT")

\* C12: headers that differ in letter case, underscores and white space only
\* resolve to the same schema entry, and a header resolves to the (last)
\* schema entry whose name differs from it in those respects only, whichever
\* spelling the inference response used: its column shows the type of that
\* entry.
C12_SpellingsShareKey ==
    Materialized =>
        LET headers == calls[Producer].headers
            items == gridData.schema.columns.items
            schemaMap == SchemaMap(gridData.schema)
        IN  /\ \A j \in 1..Len(headers) : \A k \in 1..Len(headers) :
                  SameSpelling(headers[j], headers[k])
                  => /\ NormalizeName(headers[j]) = NormalizeName(headers[k])
                     /\ SchemaCol(schemaMap, headers[j])
                           = SchemaCol(schemaMap, headers[k])
                     /\ gridData.columns[j].type = gridData.columns[k].type
            /\ \A j \in 1..Len(headers) : \A m \in 1..Len(items) :
                  (/\ SameSpelling(headers[j], items[m].name.v)
                   /\ \A n \in (m + 1)..Len(items) :
                         ~SameSpelling(headers[j], items[n].name.v))
                  => /\ SchemaCol(schemaMap, headers[j]) = items[m]
                     /\ gridData.columns[j].type = ShownType(items[m])

\* C12 witness: the headers Customer ID, customer_id and CUSTOMERID are all
\* INTEGER columns under a response that names the column customer_id
C12_Witness ==
    /\ Materialized
    /\ calls[Producer].headers
          = <<CustomerIdSpaced, CustomerIdSnake, CustomerIdUpper>>
    /\ Len(gridData.schema.columns.items) = 1
    /\ gridData.schema.columns.items[1].name = Str(CustomerIdSnake)
    /\ \A j \in 1..3 : gridData.columns[j].type = Tok("INTEGER")
    /\ GridValue(1, 1) = Num(7, 0)
    /\ GridValue(1, 3) = Num(9, 0)

\* the entries of the response whose normalized name is that of the header
MatchingEntries(schema, header) ==
    {m \in 1..Len(schema.columns.items) :
        NormalizeName(schema.columns.items[m].name.v) = NormalizeName(header)}

\* the entry the header resolves to: the last of the matching entries
ResolvedEntry(schema, header) ==
    schema.columns.items[CHOOSE m \in MatchingEntries(schema, header) :
                            \A n \in MatchingEntries(schema, header) : n <= m]

\* C13 (as claimed): the type of a column is the type string of the schema
\* entry its header resolves to, whatever that string is, and TEXT when the
\* header resolves to no entry.
C13_TypeVerbatim ==
    Materialized =>
        \A j \in 1..Len(gridData.columns) :
            LET header == calls[Producer].headers[j] IN
            IF MatchingEntries(gridData.schema, header) = {}
            THEN gridData.columns[j].type = Tok("TEXT")
            ELSE ResolvedEntry(gridData.schema, header).type.t = "string"
                 => gridData.columns[j].type
                       = ResolvedEntry(gridData.schema, header).type

\* C13 (amended): the type of a column is the type string of the schema
\* entry its header resolves to when that string is not empty, also when it
\* is none of the five types; it is TEXT when the header resolves to no
\* entry or to an entry whose type is the empty string or absent.
C13_TypeResolved ==
    Materialized =>
        \A j \in 1..Len(gridData.columns) :
            LET header == calls[Producer].headers[j] IN
            IF MatchingEntries(gridData.schema, header) = {}
            THEN gridData.columns[j].type = Tok("TEXT")
            ELSE LET type == ResolvedEntry(gridData.schema, header).type IN
                 IF type.t = "string" /\ type # Tok("")
                 THEN gridData.columns[j].type = type
                 ELSE gridData.columns[j].type = Tok("TEXT")

\* C13 witness: the first column shows the type BOOLEAN of its entry and the
\* second, whose header has no entry, the type TEXT
C13_Witness ==
    /\ Materialized
    /\ Len(gridData.columns) = 2
    /\ MatchingEntries(gridData.schema, calls[Producer].headers[1]) = {1}
    /\ gridData.schema.columns.items[1].type = Tok("BOOLEAN")
    /\ gridData.columns[1].type = Tok("BOOLEAN")
    /\ MatchingEntries(gridData.schema, calls[Producer].headers[2]) = {}
    /\ gridData.columns[2].type = Tok("TEXT")

\* the column descriptor has the member
HasMember(column, member) == member \in DOMAIN column

\* C14 (as claimed): a column of the type INTEGER or NUMERIC has the number
\* filter, the number formatter, the default aggregation sum and the allowed
\* aggregations sum, avg, min, max, count; every other column has the text
\* filter, no formatter and nothing that enables aggregation.
C14_NumericConfigExactly ==
    Materialized =>
        \A j \in 1..Len(gridData.columns) :
            LET column == gridData.columns[j] IN
            IF column.type \in {Tok("INTEGER"), Tok("NUMERIC")}
            THEN /\ column.filter = "agNumberColumnFilter"
                 /\ HasMember(column, "valueFormatter")
                 /\ column.valueFormatter = NumberFormatter(<<Producer, j>>)
                 /\ column.aggFunc = "sum"
                 /\ column.allowedAggFuncs = <<"sum", "avg", "min", "max", "count">>
            ELSE /\ column.filter = "agTextColumnFilter"
                 /\ ~HasMember(column, "valueFormatter")
                 /\ ~HasMember(column, "aggFunc")
                 /\ ~HasMember(column, "allowedAggFuncs")
                 /\ ~column.enableValue

\* the inference requests issued: the call and the position in its requests
InferenceRequestsAt ==
    {at \in (DOMAIN calls) \X (1..2) :
        /\ at[2] \in DOMAIN calls[at[1]].requests
        /\ calls[at[1]].requests[at[2]].to = "inference"}

Min(a, b) == IF a < b THEN a ELSE b

\* the sample of request k is the header row of its call followed by the
\* first n data rows (all of them when there are fewer), each on a line, in
\* file order, and the request carries the delimiter the call detected
SampleHoldsDataRows(at, n) ==
    LET call == calls[at[1]]
        request == call.requests[at[2]]
        lines == Split(request.sampleData, LF)
    IN  /\ Len(lines) = 1 + Min(n, Len(call.allRows) - 1)
        /\ \A m \in 1..Len(lines) :
              m <= Len(call.allRows) /\ lines[m] = call.allRows[m]
        /\ request.delimiter = call.delimiter

\* C15 (as claimed): every inference request carries the header row joined
\* with the first five data rows and the detected delimiter.
C15_SampleFiveDataRows ==
    \A at \in InferenceRequestsAt : SampleHoldsDataRows(at, 5)

\* C15 (amended): every inference request carries the header row joined with
\* the first four data rows (the first five rows of the file that are not
\* blank) and the detected delimiter.
C15_SampleFourDataRows ==
    \A at \in InferenceRequestsAt : SampleHoldsDataRows(at, 4)

\* C15 witness: the request for the text of a header row and six data rows
\* carries the header row and the data rows 1 to 4
C15_Witness ==
    \E at \in InferenceRequestsAt :
        /\ calls[at[1]].text = LongText
        /\ calls[at[1]].requests[at[2]].sampleData
              = <<"a", LF, "1", LF, "2", LF, "3", LF, "4">>
        /\ calls[at[1]].requests[at[2]].delimiter = ","

\* the grid run number run of the pipeline produces from a text and a
\* schema on their own
GridAlone(text, schema, run) ==
    TypedGrid(AllRows(text), Headers(AllRows(text), detectDelimiter(text)),
              detectDelimiter(text), schema, run)

\* call i writes gridData in the step
WritesGrid(i) ==
    /\ calls[i].mode = "grid" /\ calls[i].pc = "json"
    /\ calls'[i].outcome = "ok"

\* C16: when grid-mode calls overlap, the grid a call writes to gridData is
\* the grid of its own text and its own inference response, and the grid on
\* display is always the grid of one of the calls that ended ok.
C16_OverlapIsolated ==
    /\ [][\A i \in DOMAIN calls :
             WritesGrid(i)
             => gridData' = GridAlone(calls'[i].text, calls'[i].body.value, i)]_vars
    /\ [](Materialized =>
             \E i \in GridCallsOk :
                 gridData = GridAlone(calls[i].text, calls[i].body.value, i))

\* C16 witness: two calls on different texts have both written their grid,
\* the second was started before the first one's inference request was
\* answered, and the grid on display is that of the first call, which
\* therefore ended last
C16_Witness ==
    /\ Len(calls) >= 2
    /\ {1, 2} \subseteq GridCallsOk
    /\ calls[1].text # calls[2].text
    /\ gridData = GridAlone(calls[1].text, calls[1].body.value, 1)
    /\ gridData # GridAlone(calls[2].text, calls[2].body.value, 1)

\* the grid the page shows: none before the first grid is set and none once
\* the tree is unmounted
Displayed == IF renderCrash = "none" THEN gridData ELSE null

\* C17 (as claimed): the grid on display changes only in the step in which
\* a grid-mode call ends ok, and then to the whole grid of that call, its
\* columns, rows and schema together.  In every other step (the start of a
\* call, its awaits, its failure, the steps of database mode) the grid on
\* display stays as it was.
C17_ReplacedWholesale ==
    [][IF \A i \in DOMAIN calls : ~WritesGrid(i)
       THEN Displayed' = Displayed
       ELSE \E i \in DOMAIN calls :
               /\ WritesGrid(i)
               /\ Displayed'
                     = GridAlone(calls[i].text, calls'[i].body.value, i)]_vars

\* C18 (as claimed): when a grid-mode call ends ok on the text and the
\* inference response of the call that produced the grid on display, the
\* grid it writes equals the grid on display: the same column descriptors,
\* the same rows and the same schema.
C18_RerunSameGrid ==
    [][\A j \in DOMAIN calls :
          (/\ WritesGrid(j)
           /\ renderCrash = "none"
           /\ Materialized
           /\ calls[Producer].text = calls[j].text
           /\ calls[Producer].body = calls'[j].body)
          => /\ gridData'.columns = gridData.columns
             /\ gridData'.data = gridData.data
             /\ gridData'.schema = gridData.schema]_vars

\* the characters of the text before its first line feed
FirstRawLine(text) == SubSeq(text, 1, LineEnd(text, 1) - 1)

\* C19: the delimiter a call detects for its text is the one detected for
\* the characters before the first line feed alone, whatever follows them;
\* when those characters hold neither pipe nor comma (a blank first line
\* included) it is the comma, also when the header row comes later and holds
\* pipes.
C19_FirstLineOnly ==
    \A i \in Detected :
        /\ calls[i].delimiter = detectDelimiter(FirstRawLine(calls[i].text))
        /\ (\A k \in 1..Len(FirstRawLine(calls[i].text)) :
                FirstRawLine(calls[i].text)[k] \notin {"|", ","})
              => calls[i].delimiter = ","

\* C19 witness: the first line of the text is empty, the header row a|a
\* follows it, and the call detected the comma and found the one header a|a
C19_Witness ==
    \E i \in Detected :
        /\ calls[i].text = <<LF, "a", "|", "a">>
        /\ calls[i].delimiter = ","
        /\ calls[i].headers = << <<"a", "|", "a">> >>

\* the type of the entry the header resolves to, undefined without entry
ResolvedType(schema, header) ==
    IF MatchingEntries(schema, header) = {} THEN undefined
    ELSE ResolvedEntry(schema, header).type

\* C20 (as claimed): when a header string stands at two positions of the
\* header row, each row of the grid has an entry for it, and its value is
\* the field at the later position coerced by the type of the schema entry
\* the header resolves to.
C20_LaterDuplicateWins ==
    Materialized =>
        LET headers == calls[Producer].headers IN
        \A r \in 1..Len(gridData.data) :
            \A j \in 1..Len(headers) : \A k \in (j + 1)..Len(headers) :
                (headers[j] = headers[k] /\ LastOccurrence(headers, k))
                => /\ ObjHas(gridData.data[r], headers[j])
                   /\ GridValue(r, k)
                         = CellValue(ResolvedType(gridData.schema, headers[j]),
                                     CellText(calls[Producer], r, k))

\* the number of digits the text starts with
LeadingDigits(s) ==
    CHOOSE k \in 0..Len(s) :
        /\ \A m \in 1..k : IsDigit(s[m])
        /\ k = Len(s) \/ ~IsDigit(s[k + 1])

\* the natural number written by a sequence of digits
RECURSIVE NatValue(_)
NatValue(digits) ==
    IF digits = <<>> THEN 0
    ELSE 10 * NatValue(SubSeq(digits, 1, Len(digits) - 1))
            + DigitVal(digits[Len(digits)])

\* the text is an unsigned integer followed by a character that can be no
\* part of a number
IntegerThenOther(s) ==
    /\ LeadingDigits(s) > 0
    /\ LeadingDigits(s) < Len(s)
    /\ s[LeadingDigits(s) + 1] \notin {".", "e", "E"}

\* C21 (as claimed):
\* a cell of an INTEGER column that starts with digits has the value of
\* those digits whatever follows them; a cell of a NUMERIC column that is an
\* integer followed by other characters has the value of the integer; the
\* cells 12.5abc and 1.5x are 12.5 and 1.5 as NUMERIC and 12 and 1 as
\* INTEGER; and the line 1,234.5 under the single NUMERIC header amount
\* gives the one row {amount: 1}.
C21_NumericPrefix ==
    Materialized =>
        /\ \A r \in 1..Len(gridData.data) :
              \A j \in 1..Len(gridData.columns) :
                  LET cell == CellText(calls[Producer], r, j) IN
                  LastOccurrence(calls[Producer].headers, j) =>
                      /\ (gridData.columns[j].type = Tok("INTEGER")
                          /\ LeadingDigits(cell) > 0)
                         => GridValue(r, j)
                               = Num(NatValue(SubSeq(cell, 1, LeadingDigits(cell))), 0)
                      /\ (gridData.columns[j].type = Tok("NUMERIC")
                          /\ IntegerThenOther(cell))
                         => GridValue(r, j)
                               = Num(NatValue(SubSeq(cell, 1, LeadingDigits(cell))), 0)
                      /\ (gridData.columns[j].type = Tok("NUMERIC")
                          /\ cell = <<"1", "2", ".", "5", "a", "b", "c">>)
                         => GridValue(r, j) = Num(125, 1)
                      /\ (gridData.columns[j].type = Tok("NUMERIC")
                          /\ cell = <<"1", ".", "5", "x">>)
                         => GridValue(r, j) = Num(15, 1)
        /\ (calls[Producer].text = AmountText /\ gridData.schema = AmountSchema)
              => gridData.data
                    = << [h \in {<<"a", "m", "o", "u", "n", "t">>} |-> Num(1, 0)] >>

\* the header names of the people scenario
NameHeader == <<"n", "a", "m", "e">>
AgeHeader == <<"a", "g", "e">>
JoinedHeader == <<"j", "o", "i", "n", "e", "d">>

\* a row of the people scenario
PersonRow(name, age, joined) ==
    [h \in {NameHeader, AgeHeader, JoinedHeader} |->
        IF h = NameHeader THEN Str(name)
        ELSE IF h = AgeHeader THEN age
        ELSE Str(joined)]

\* C22: the call on the text name,age,joined / Alice,30,2020-01-01 /
\* Bob,,2021-06-15 detects the comma, and when it ends ok on the response
\* that types name TEXT, age INTEGER and joined DATE the grid has exactly the
\* rows {name: Alice, age: 30, joined: 2020-01-01} and {name: Bob, age: null,
\* joined: 2021-06-15}, in this order.
C22_PeopleScenario ==
    \A i \in DOMAIN calls :
        (calls[i].mode = "grid" /\ calls[i].text = PeopleText) =>
            /\ i \in Detected => calls[i].delimiter = ","
            /\ (calls[i].outcome = "ok" /\ calls[i].body = Parsed(PeopleSchema))
                  => /\ gridData.data
                          = <<PersonRow(<<"A", "l", "i", "c", "e">>, Num(30, 0),
                                        <<"2", "0", "2", "0", "-", "0", "1", "-",
                                          "0", "1">>),
                              PersonRow(<<"B", "o", "b">>, null,
                                        <<"2", "0", "2", "1", "-", "0", "6", "-",
                                          "1", "5">>)>>
                     /\ [j \in 1..3 |-> gridData.columns[j].field]
                           = <<NameHeader, AgeHeader, JoinedHeader>>
                     /\ [j \in 1..3 |-> gridData.columns[j].type]
                           = <<Tok("TEXT"), Tok("INTEGER"), Tok("DATE")>>

\* C22 witness: the call on the people text ended ok on the people response
\* and the grid has two rows, the second with the age null
C22_Witness ==
    /\ Materialized
    /\ calls[Producer].text = PeopleText
    /\ calls[Producer].body = Parsed(PeopleSchema)
    /\ Len(gridData.data) = 2
    /\ gridData.data[2][AgeHeader] = null

\* the calls that take a step: the new call or the call whose record changes
Stepping(i) ==
    /\ i \in DOMAIN calls'
    /\ i \in DOMAIN calls => calls'[i] # calls[i]

\* the requests call i issues in the step, by their position
NewRequests(i) ==
    IF i \in DOMAIN calls
    THEN (Len(calls[i].requests) + 1)..Len(calls'[i].requests)
    ELSE DOMAIN calls'[i].requests

\* C23: every inference request belongs to a grid-mode call and every
\* upload, query and agent request to a database-mode call; a step of a
\* grid-mode call issues inference requests only and leaves tableInfo and
\* sharedMessages as they were; a step of a database-mode call issues no
\* inference request and leaves gridData as it was.
C23_PathsSeparate ==
    /\ [](\A i \in DOMAIN calls :
             \A k \in DOMAIN calls[i].requests :
                calls[i].requests[k].to = "inference" <=> calls[i].mode = "grid")
    /\ [][\A i \in DOMAIN calls' :
             Stepping(i) =>
                IF calls'[i].mode = "grid"
                THEN /\ state'.tableInfo = state.tableInfo
                     /\ sharedMessages' = sharedMessages
                     /\ \A k \in NewRequests(i) :
                           calls'[i].requests[k].to = "inference"
                ELSE /\ gridData' = gridData
                     /\ \A k \in NewRequests(i) :
                           calls'[i].requests[k].to # "inference"]_vars

\* C23 witness: in one session a grid-mode call has written its grid and a
\* database-mode call has set tableInfo and added the reply of the agent
C23_Witness ==
    /\ Materialized
    /\ state.tableInfo # initialState.tableInfo
    /\ Len(sharedMessages) = 1
    /\ \E i \in DOMAIN calls : InferenceRequests(calls, i) = 1
    /\ \E i \in DOMAIN calls :
          /\ calls[i].mode = "database"
          /\ calls[i].outcome = "ok"
          /\ calls[i].requests[1].to = "upload"

\* the grid-mode calls that have started and not ended
GridInFlight ==
    {i \in DOMAIN calls : calls[i].mode = "grid" /\ calls[i].pc # "done"}

\* the Table button can be used: the tree that holds it is mounted and the
\* button is not disabled, which it is while isGridLoading
TableButton == renderCrash = "none" /\ ~isGridLoading

\* C24: in a session driven through the buttons at most one grid-mode call
\* is in flight; while one is in flight (from its start on) the Table button
\* cannot be used, because isGridLoading is true or because a render has
\* thrown and no button is left; and a grid-mode call starts only in a state
\* in which the button can be used and no grid-mode call is in flight, and
\* has set isGridLoading when it first suspends.
C24_OneGridInFlight ==
    /\ [](/\ Cardinality(GridInFlight) <= 1
          /\ GridInFlight # {} => ~TableButton)
    /\ [][\A i \in DOMAIN calls' :
             (i \notin DOMAIN calls /\ calls'[i].mode = "grid")
             => /\ TableButton
                /\ GridInFlight = {}
                /\ calls'[i].pc # "done" => isGridLoading']_vars

\* C24 witness: a second grid-mode call is in flight after the first one
\* has ended, and the button is disabled
C24_Witness ==
    /\ Len(calls) = 2
    /\ calls[1].mode = "grid" /\ calls[1].pc = "done"
    /\ calls[1].outcome \in {"ok", "failed"}
    /\ GridInFlight = {2}
    /\ calls[2].pc = "fetch"
    /\ isGridLoading

\* the state r has the fields of s, all with their value in s but the given
SameExcept(r, s, field) ==
    /\ DOMAIN r = DOMAIN s
    /\ \A f \in DOMAIN s \ {field} : r[f] = s[f]

\* what the claim says of the state r the reducer returns for s and action a
ReducerEffect(s, a, r) ==
    CASE a.type = "SET_FILES" -> r.files = a.payload /\ SameExcept(r, s, "files")
      [] a.type = "SET_LOADING" ->
            r.loading = a.payload /\ SameExcept(r, s, "loading")
      [] a.type = "SET_ERROR" -> r.error = a.payload /\ SameExcept(r, s, "error")
      [] a.type = "SET_STATUS" ->
            r.status = a.payload /\ SameExcept(r, s, "status")
      [] a.type = "SET_PROGRESS" ->
            r.progress = a.payload /\ SameExcept(r, s, "progress")
      [] a.type = "SET_TABLE_INFO" ->
            r.tableInfo = a.payload /\ SameExcept(r, s, "tableInfo")
      [] a.type = "ADD_CHART" ->
            /\ Len(r.charts) = Len(s.charts) + 1
            /\ r.charts[Len(r.charts)] = a.payload
            /\ \A k \in 1..Len(s.charts) : r.charts[k] = s.charts[k]
            /\ SameExcept(r, s, "charts")
      [] a.type = "RESET" -> r = initialState
      [] OTHER -> r = s

\* C25: in every state the dispatched actions lead to, the reducer applied to
\* the state and any action returns a state that differs from it as the
\* action says: the one field replaced, the chart appended at the end,
\* the initial state for RESET, the same state for an unknown action.
C25_ReducerFrame ==
    \A a \in ReducerActions : ReducerEffect(state, a, reducer(state, a))

\* C25 witness: two charts were added in the order u1, u2 after the status
\* and the table information had been set
C25_Witness ==
    /\ Len(state.charts) = 2
    /\ state.charts[1].url = "u1" /\ state.charts[2].url = "u2"
    /\ state.status = "success"
    /\ state.tableInfo.rowCount = 2
    /\ state.files = initialState.files

\* C26: with overlapping grid-mode calls, the step in which the inference
\* response of a call resolves to a usable schema puts the grid of that call
\* on display, also when calls started after it are in flight or have
\* already written their grid, and it leaves the other calls as they are;
\* every other step leaves the grid on display.
\* So the grid displayed in the end is that of the call whose response
\* resolved last.
C26_LastResolvedWins ==
    [][/\ \A i \in DOMAIN calls :
             WritesGrid(i) =>
                /\ gridData' = GridAlone(calls[i].text, calls'[i].body.value, i)
                /\ \A j \in DOMAIN calls \ {i} : calls'[j] = calls[j]
       /\ (~ \E i \in DOMAIN calls : WritesGrid(i)) => gridData' = gridData
      ]_vars

\* C26 witness: both calls have ended, the call started second wrote its
\* grid first and the call started first wrote its grid last, which is the
\* one on display
C26_Witness ==
    /\ Len(calls) = 2
    /\ \A i \in {1, 2} : calls[i].pc = "done" /\ calls[i].outcome = "ok"
    /\ ~isGridLoading
    /\ Len(calls[1].headers) # Len(calls[2].headers)
    /\ gridData.columns
          = GridAlone(calls[1].text, calls[1].body.value, 1).columns
    /\ \A i \in {1, 2} : calls[i].toasts = <<TableLoaded>>

\* the loading flag of a mode, now and after the step, and that of the other
Flag(mode) == IF mode = "grid" THEN isGridLoading ELSE isDbLoading
FlagNext(mode) == IF mode = "grid" THEN isGridLoading' ELSE isDbLoading'
OtherKept(mode) ==
    IF mode = "grid" THEN isDbLoading' = isDbLoading
    ELSE isGridLoading' = isGridLoading

\* C27 (as claimed): in a session, the flag of its mode is true while a call
\* is in flight; the step that starts a call with a file sets the flag of its mode,
\* the step that ends a call (ok, failed on an empty file, on the inference
\* or on the upload, upload without success, failed analysis) clears it, a
\* call without file changes no flag, the steps in between change no flag,
\* and no step of a call changes the flag of the other mode.
C27_LoadingFlagCleared ==
    /\ [](\A i \in DOMAIN calls :
             /\ calls[i].pc # "done" => Flag(calls[i].mode)
             /\ calls[i].outcome = "nofile" => calls[i].pc = "done")
    /\ [][\A i \in DOMAIN calls' :
             Stepping(i) =>
                /\ OtherKept(calls'[i].mode)
                /\ FlagNext(calls'[i].mode) =
                      IF calls'[i].outcome = "nofile" THEN Flag(calls'[i].mode)
                      ELSE calls'[i].pc # "done"]_vars

\* the schema analysis of database-mode call i is running
Analysing(i) ==
    /\ calls[i].mode = "database"
    /\ calls[i].pc \in {"structure", "structureText", "sample", "sampleText",
                        "agent", "agentJson"}

\* the tableInfo of the decoded upload response
TableInfoOf(data) ==
    [tableName |-> data.table_name, rowCount |-> data.rows_inserted,
     columns |-> data.columns]

\* C28 (as claimed): the upload response with status success sets tableInfo
\* to its table name, row count and columns in the step that starts the
\* schema analysis; no step of the analysis changes the state; the step in
\* which the analysis fails (structure, sample or agent) shows the toast
\* 'Schema Analysis Failed' and not 'Upload Failed', leaves the state with
\* its tableInfo and the shared messages as they were, and clears
\* isDbLoading.
C28_AnalysisFailureKeepsUpload ==
    [][\A i \in DOMAIN calls :
          /\ (calls[i].pc = "upload" /\ Analysing(i)')
                => state'.tableInfo = TableInfoOf(calls'[i].data)
          /\ (Analysing(i) /\ calls'[i] # calls[i]) => state' = state
          /\ (Analysing(i) /\ calls'[i].pc = "done"
                 /\ calls'[i].outcome # "ok")
                => /\ calls'[i].outcome = "analysisFailed"
                   /\ calls'[i].toasts = Append(calls[i].toasts, AnalysisFailed)
                   /\ state' = state
                   /\ sharedMessages' = sharedMessages
                   /\ ~isDbLoading']_vars

\* the contents a chat submission can append as the assistant: the apology
\* and the contents of the agent's replies
ChatContents ==
    {Apology} \cup {MessageContent(r.value) :
                       r \in {x \in ChatResults :
                                 x.kind = "json" /\ x.value # null}}
IsChatMessage(m) == m.role = "user" \/ m.content \in ChatContents
\* the messages of the chat submissions, without those of the schema analysis
ChatMessages == SelectSeq(sharedMessages, IsChatMessage)
\* the submissions in flight, and those that ran to their end
Running == {k \in DOMAIN submissions : submissions[k].pc # "done"}
Settled ==
    {k \in DOMAIN submissions :
        submissions[k].pc = "done" /\ submissions[k].outcome # "blank"}
\* the questions posted to the agent by submission k
ChatRequests(k) ==
    SelectSeq(submissions[k].requests, LAMBDA r : r.to = "chat")

\* C29 (as claimed): a submission whose input does not trim to nothing
\* appends exactly the user message, sets isLoading and posts one request; its last step
\* appends exactly one assistant message, the agent's reply or the apology,
\* and clears isLoading; no other step of it appends a message or changes
\* isLoading; a submission whose input trims to nothing changes neither the
\* messages nor the requests.  So the chat messages alternate user,
\* assistant, and the isLoading of the ChatBox on display holds exactly
\* while a submission is in flight.
C29_ChatTurns ==
    /\ [](/\ ChatMounted => (isLoading <=> Running # {})
          /\ Cardinality(Running) <= 1
          /\ Len(ChatMessages) = 2 * Cardinality(Settled) + Cardinality(Running)
          /\ \A j \in DOMAIN ChatMessages :
                ChatMessages[j].role = IF j % 2 = 1 THEN "user" ELSE "assistant"
          /\ \A k \in DOMAIN submissions :
                Len(ChatRequests(k))
                   = IF submissions[k].outcome = "blank" THEN 0 ELSE 1)
    /\ [][/\ Len(submissions') > Len(submissions) =>
               IF Trim(input) = <<>>
               THEN /\ sharedMessages' = sharedMessages
                    /\ submissions'[Len(submissions')].requests = <<>>
                    /\ isLoading' = isLoading
               ELSE /\ sharedMessages' =
                        Append(sharedMessages, Message("user", Str(input)))
                    /\ submissions'[Len(submissions')].requests
                          = <<[to |-> "chat", question |-> input]>>
                    /\ isLoading'
          /\ \A k \in Running :
                submissions'[k].pc = "done" =>
                   /\ \E content \in ChatContents :
                         /\ sharedMessages' = Append(sharedMessages,
                                                 Message("assistant", content))
                         /\ content = Apology
                               <=> submissions'[k].outcome = "apology"
                   /\ ~isLoading'
          /\ (/\ Len(submissions') = Len(submissions)
              /\ \A k \in Running : submissions'[k].pc # "done") =>
                 /\ ChatMessages' = ChatMessages
                 /\ isLoading' = isLoading]_vars

\* the schema entries whose normalized name is the key
EntriesOfKey(schema, key) ==
    {m \in 1..Len(schema.columns.items) :
        NormalizeName(schema.columns.items[m].name.v) = key}
\* the latest of them in the columns array
LaterEntry(schema, key) ==
    schema.columns.items[CHOOSE m \in EntriesOfKey(schema, key) :
                            \A n \in EntriesOfKey(schema, key) : n <= m]

\* C30: when two or more entries of the inferred schema have one normalized
\* key, every header with that key resolves to the entry that comes last in
\* the columns array: its column shows the type of that entry and its cells
\* are coerced by it, whichever header string spells the key.
C30_LaterEntryWins ==
    Materialized =>
        LET headers == calls[Producer].headers
            schema == gridData.schema
        IN  \A j \in 1..Len(headers) :
               LET key == NormalizeName(headers[j]) IN
               Cardinality(EntriesOfKey(schema, key)) >= 2 =>
                  /\ SchemaCol(SchemaMap(schema), headers[j])
                        = LaterEntry(schema, key)
                  /\ gridData.columns[j].type
                        = ShownType(LaterEntry(schema, key))
                  /\ LastOccurrence(headers, j) =>
                        \A r \in 1..Len(gridData.data) :
                           GridValue(r, j)
                              = CellValue(LaterEntry(schema, key).type,
                                          CellText(calls[Producer], r, j))

\* C30 witness: the entries a_b (NUMERIC) and AB (INTEGER), in this order,
\* give both headers a_b and ab the type INTEGER, and 8.5 under ab is 8
C30_Witness ==
    /\ Materialized
    /\ calls[Producer].headers = << <<"a", "_", "b">>, <<"a", "b">> >>
    /\ EntriesOfKey(gridData.schema, <<"a", "b">>) = {1, 2}
    /\ gridData.schema.columns.items[1].type = Tok("NUMERIC")
    /\ gridData.schema.columns.items[2].type = Tok("INTEGER")
    /\ gridData.columns[1].type = Tok("INTEGER")
    /\ gridData.columns[2].type = Tok("INTEGER")
    /\ GridValue(1, 1) = Num(7, 0)
    /\ GridValue(1, 2) = Num(8, 0)

====
